---------------------------- MODULE Spec2Model ----------------------------
(***************************************************************************)
(* Bond13: three query agents (directory, finder, screener) behind an      *)
(* orchestrator.  A query is a sequence of words (the text with its words  *)
(* separated by single blanks); every regular expression of the source is  *)
(* an operator over such sequences, written from the expression it models. *)
(***************************************************************************)
EXTENDS Integers, Sequences, FiniteSets, TLC

VARIABLES
    bonds_db,            \* BondDirectoryAgent.bonds_db: sequence of rows
    finder_db,           \* BondFinderAgent.finder_db: sequence of rows
    company_db,          \* BondScreenerAgent.company_db: sequence of company names
    specialized_agents,  \* OrchestratorAgent.specialized_agents: keys in insertion order
    pending,             \* queries not yet submitted
    called,              \* entry point of the last call ("none" before any)
    query,               \* text of the last call
    result,              \* value returned (or exception raised) by the last call
    evaluated,           \* cascade rules whose trigger the last call evaluated, in order
    fired,               \* cascade rule whose handler the last call invoked (0: none)
    handler,             \* name of that handler ("none": fallback)
    invoked              \* agents whose process_query the orchestrator invoked, in order

vars == << bonds_db, finder_db, company_db, specialized_agents, pending, called,
           query, result, evaluated, fired, handler, invoked >>

----------------------------------------------------------------------------
(* Bounds of the model. *)

MaxPhrases == 2       \* phrases per query in the cascade and routing scenarios
MaxRows == 2          \* rows of a store whose rows range over every field value
MaxListRows == 11     \* rows of a store in the display-cap scenarios
MaxCalls == 2         \* calls of process_query in a session

----------------------------------------------------------------------------
(* Words.  Each set below lists the words of Vocab that contain (or end    *)
(* with, or start with) the text a regular expression looks for, compared  *)
(* without case as re.IGNORECASE does.                                     *)

Vocab ==
    { "isin", "INE1", "INE9", "bonds", "by", "from", "ugro", "tata", "find", "search",
      "debentures", "maturity", "maturing", "2026", "2025", "schedule", "offer",
      "for", "secured", "trustee", "listing", "face", "value", "hello",
      "coupon", "above", "10%", "after", "rated", "AA", "AA+", "AA-", "AAA",
      "show", "bond", "finder", "where", "buy", "yield", "more", "than", "8", "9",
      "best", "3", "year", "as", "available",
      "alpha", "beta", "gamma", "ltd", "summary", "about", "the", "eps", "compare",
      "pros", "lenders", "news", "and",
      "debenture", "price", "to", "calculate", "company", "date", "in", "payment",
      "there", "Ugro", "Capital", "ine1", "aa", "is", "what", "cons", "platform",
      "current", "ratio" }

\* Words made of letters only ([A-Za-z]+).
Alpha ==
    Vocab \ { "INE1", "INE9", "ine1", "2026", "2025", "10%", "AA+", "AA-", "8", "9", "3" }

\* Words made of digits only.
Digits == { "2026", "2025", "8", "9", "3" }

\* The longest prefix of a word made of letters ([A-Za-z]*).
AlphaPrefix(w) ==
    CASE w \in Alpha -> w
      [] w \in {"INE1", "INE9"} -> "INE"
      [] w = "ine1" -> "ine"
      [] w \in {"AA+", "AA-"} -> "AA"
      [] OTHER -> ""

\* The longest prefix of a word made of letters and digits ([A-Z0-9]* without case).
AlnumPrefix(w) ==
    CASE w = "10%" -> "10"
      [] w \in {"AA+", "AA-"} -> "AA"
      [] OTHER -> w

\* Words that start with a letter / with a letter or a digit / with a digit.
StartsAlpha == { w \in Vocab : AlphaPrefix(w) # "" }
StartsAlnum == Vocab
StartsDigit == Digits \cup { "10%" }

\* Words holding four digits in a row, and the first such run (\d{4}).
HasYear == { "2026", "2025" }
YearOf(w) == IF w = "2026" THEN 2026 ELSE 2025

\* The number a word starts with (\d+\.?\d*), for the words that start with one.
NumberOf(w) ==
    CASE w = "10%" -> 10
      [] w = "8" -> 8
      [] w = "9" -> 9
      [] w = "3" -> 3
      [] w = "2026" -> 2026
      [] OTHER -> 2025

\* The number a word ends with (\d+ before a blank), for the words that end with one.
TrailingNumber(w) ==
    CASE w \in { "INE1", "ine1" } -> 1
      [] w = "INE9" -> 9
      [] OTHER -> NumberOf(w)

EndsDigit == Digits \cup { "INE1", "INE9", "ine1" }

\* Words of more than three characters (len(word) > 3).
LongerThan3 ==
    Vocab \ { "by", "for", "AA", "AA+", "AA-", "AAA", "10%", "buy", "8", "9", "3", "as",
              "ltd", "the", "eps", "and", "to", "in", "aa", "is" }

\* Words whose first three characters are letters or digits (\w).
StartsWith3Alnum ==
    Vocab \ { "by", "AA", "AA+", "AA-", "10%", "8", "9", "3", "as", "to", "in", "aa", "is" }

\* str.lower() of a word; the words not listed are in lower case already, or
\* differ from every lower-case word the model holds.
Fold(w) ==
    CASE w = "Ugro" -> "ugro"
      [] w = "Capital" -> "capital"
      [] w = "Tata" -> "tata"
      [] w = "Power" -> "power"
      [] w = "Alpha" -> "alpha"
      [] w = "Beta" -> "beta"
      [] w = "AA" -> "aa"
      [] w = "INE1" -> "ine1"
      [] OTHER -> w

FoldAll(s) == [i \in 1..Len(s) |-> Fold(s[i])]

\* str.upper() of a word.
Upper(w) ==
    CASE w = "isin" -> "ISIN" [] w = "bonds" -> "BONDS" [] w = "by" -> "BY"
      [] w = "from" -> "FROM" [] w = "ugro" -> "UGRO" [] w = "tata" -> "TATA"
      [] w = "find" -> "FIND" [] w = "search" -> "SEARCH" [] w = "debentures" -> "DEBENTURES"
      [] w = "maturity" -> "MATURITY" [] w = "maturing" -> "MATURING" [] w = "schedule" -> "SCHEDULE"
      [] w = "offer" -> "OFFER" [] w = "for" -> "FOR" [] w = "secured" -> "SECURED"
      [] w = "trustee" -> "TRUSTEE" [] w = "listing" -> "LISTING" [] w = "face" -> "FACE"
      [] w = "value" -> "VALUE" [] w = "hello" -> "HELLO" [] w = "coupon" -> "COUPON"
      [] w = "above" -> "ABOVE" [] w = "after" -> "AFTER" [] w = "rated" -> "RATED"
      [] w = "show" -> "SHOW" [] w = "bond" -> "BOND" [] w = "finder" -> "FINDER"
      [] w = "where" -> "WHERE" [] w = "buy" -> "BUY" [] w = "yield" -> "YIELD"
      [] w = "more" -> "MORE" [] w = "than" -> "THAN" [] w = "best" -> "BEST"
      [] w = "year" -> "YEAR" [] w = "as" -> "AS" [] w = "available" -> "AVAILABLE"
      [] w = "alpha" -> "ALPHA" [] w = "beta" -> "BETA" [] w = "gamma" -> "GAMMA"
      [] w = "ltd" -> "LTD" [] w = "summary" -> "SUMMARY" [] w = "about" -> "ABOUT"
      [] w = "the" -> "THE" [] w = "eps" -> "EPS" [] w = "compare" -> "COMPARE"
      [] w = "pros" -> "PROS" [] w = "lenders" -> "LENDERS" [] w = "news" -> "NEWS"
      [] w = "and" -> "AND" [] w = "debenture" -> "DEBENTURE" [] w = "price" -> "PRICE"
      [] w = "to" -> "TO" [] w = "calculate" -> "CALCULATE" [] w = "company" -> "COMPANY"
      [] w = "date" -> "DATE" [] w = "in" -> "IN" [] w = "payment" -> "PAYMENT"
      [] w = "there" -> "THERE" [] w = "Ugro" -> "UGRO" [] w = "Capital" -> "CAPITAL"
      [] w = "ine1" -> "INE1" [] w = "aa" -> "AA" [] w = "is" -> "IS"
      [] w = "what" -> "WHAT" [] w = "cons" -> "CONS" [] w = "platform" -> "PLATFORM"
      [] w = "current" -> "CURRENT" [] w = "ratio" -> "RATIO"
      [] OTHER -> w

----------------------------------------------------------------------------
(* Helpers over word sequences. *)

Min(a, b) == IF a <= b THEN a ELSE b

MinOf(S) == CHOOSE x \in S : \A y \in S : x <= y
MaxOf(S) == CHOOSE x \in S : \A y \in S : x >= y

\* Positions of q holding a word of W.
At(q, W) == { i \in 1..Len(q) : q[i] \in W }

\* "A.+B": a word of A, later a word of B (the blank between two words is the .+).
Then(q, A, B) == \E i \in At(q, A) : \E j \in At(q, B) : i < j


\* Positions i where "A\s+B" matches with A in word i.
Next2At(q, A, B) == { i \in At(q, A) : i < Len(q) /\ q[i + 1] \in B }

\* The first n elements of a sequence (DataFrame.head(n)).
Head_n(s, n) == SubSeq(s, 1, Min(n, Len(s)))

\* s is a run of consecutive elements of t (substring containment, word by word).
IsInfix(s, t) ==
    \E k \in 0..(Len(t) - Len(s)) : \A i \in 1..Len(s) : t[k + i] = s[i]

\* The text "[A-Za-z\s]+" captures from word j on, stripped: the words made of
\* letters, then the letters a further word starts with.
RECURSIVE LetterRun(_, _)
LetterRun(q, j) ==
    IF j > Len(q) THEN << >>
    ELSE IF q[j] \in Alpha THEN << q[j] >> \o LetterRun(q, j + 1)
    ELSE IF AlphaPrefix(q[j]) # "" THEN << AlphaPrefix(q[j]) >>
    ELSE << >>


----------------------------------------------------------------------------
(* The record store of the directory agent (bonds_db, read from a CSV      *)
(* file).  A row keeps the columns the handlers compute with; the other    *)
(* columns are only copied into messages.  issuer_name is a sequence of    *)
(* words.  redemption_date is the text of the CSV cell, or, once           *)
(* pd.to_datetime has converted the column, a datetime; year 0 stands for  *)
(* a text that is no date, and for NaT after conversion.                   *)

Ratings == { "AA", "AAA", "AA+", "AA-" }

DateText(y) == [kind |-> "text", year |-> y]
DateTime(y) == [kind |-> "datetime", year |-> y]

\* pd.to_datetime(column, errors='coerce') on one cell.
to_datetime(d) == DateTime(d.year)

\* The letters of the words issuer names are made of.
CharsOf(w) ==
    CASE w = "ugro" -> { "u", "g", "r", "o" }
      [] w = "capital" -> { "c", "a", "p", "i", "t", "l" }
      [] w = "tata" -> { "t", "a" }
      [] w = "power" -> { "p", "o", "w", "e", "r" }
      [] w = "alpha" -> { "a", "l", "p", "h" }
      [] w = "beta" -> { "b", "e", "t", "a" }
      [] OTHER -> { }

\* Series.str.contains(text, case=False): the text, a sequence of words or a
\* single letter, occurs in the name.
ContainsNoCase(text, name) ==
    IF Len(text) = 1 /\ text[1] \notin Vocab
    THEN \E i \in 1..Len(name) : text[1] \in CharsOf(Fold(name[i]))
    ELSE IsInfix(FoldAll(text), FoldAll(name))

\* The letters and the sign of a rating text ([A-Z]+[+-]?).
RatingLetters(r) == CASE r = "AAA" -> 3 [] r = "A" -> 1 [] OTHER -> 2
RatingSign(r) == CASE r = "AA+" -> "+" [] r = "AA-" -> "-" [] OTHER -> ""

\* Series.str.contains(pat, regex=False): pat occurs in the cell as it is written.
ContainsLiteral(pat, cell) ==
    /\ pat \in Ratings
    /\ RatingLetters(cell) >= RatingLetters(pat)
    /\ RatingSign(pat) # "" => RatingSign(cell) = RatingSign(pat)

\* Series.str.contains(pat) with its default regex=True: pat is searched as a
\* regular expression, in which a final "+" repeats the letter before it.
ContainsRegex(pat, cell) ==
    /\ pat \in Ratings
    /\ RatingLetters(cell) >= RatingLetters(pat)
    /\ RatingSign(pat) = "-" => RatingSign(cell) = "-"

----------------------------------------------------------------------------
(* BondDirectoryAgent: the trigger of each rule of process_query, in the   *)
(* order of the source.                                                    *)

EndsIsin == { "isin" }
EndsByFrom == { "by", "from" }

\* r'ISIN\s+([A-Z0-9]+)'
IsinAt(q) == Next2At(q, EndsIsin, StartsAlnum)
IsinMatch(q) == IsinAt(q) # { }
IsinGroup(q) == AlnumPrefix(q[MinOf(IsinAt(q)) + 1])

\* r'(issuances|issued|bonds|by|from)\s+([A-Za-z\s]+)'
IssuerMentionAt(q) == Next2At(q, { "bonds", "by", "from" }, StartsAlpha)

\* r'(issuances|issued|bonds).+(by|from)\s+([A-Za-z\s]+)'
IssuancesAt(q) ==
    { j \in Next2At(q, EndsByFrom, StartsAlpha) : \E i \in At(q, { "bonds" }) : i < j }

\* r'(cash\s+flow|schedule|...).+ISIN\s+([A-Z0-9]+)': a word of A, later ISIN and a code.
ThenIsin(q, A) == \E i \in At(q, A) : \E j \in IsinAt(q) : i < j

\* r'(face\s+value)': positions of the word "value" that follows "face".
FaceValueAt(q) == { i + 1 : i \in Next2At(q, { "face" }, { "value" }) }

\* r'(face\s+value).+([A-Za-z\s]+)\s+bond': after "face value" and one more
\* word ending in a letter, a word starting with "bond".
FaceIssuerAt(q) ==
    { k \in At(q, { "bond", "bonds" }) :
        /\ \E i \in FaceValueAt(q) : k >= i + 2
        /\ q[k - 1] \in Alpha }

DirectoryRules == 1..10

DirTrigger(i, q) ==
    CASE i = 1 -> IsinMatch(q)
      [] i = 2 -> IssuancesAt(q) # { }
      \* r'(find|search|filter).+(bonds|debentures)'
      [] i = 3 -> Then(q, { "find", "search", "finder" }, { "bonds", "debentures" })
      \* r'(maturing|maturity).+(\d{4})'
      [] i = 4 -> Then(q, { "maturing", "maturity" }, HasYear)
      \* r'(cash\s+flow|schedule).+ISIN\s+([A-Z0-9]+)'
      [] i = 5 -> ThenIsin(q, { "schedule" })
      \* r'(security|secured).+ISIN\s+([A-Z0-9]+)'
      [] i = 6 -> ThenIsin(q, { "secured" })
      \* r'(document|doc|offer|trust).+(ISIN|for)\s+([A-Z0-9]+)'
      [] i = 7 -> \E a \in At(q, { "offer", "trustee" }) :
                     \E j \in Next2At(q, { "isin", "for" }, StartsAlnum) : a < j
      \* r'(trustee|debenture\s+trustee).+ISIN\s+([A-Z0-9]+)'
      [] i = 8 -> ThenIsin(q, { "trustee" })
      \* r'(listing|listed|exchange|trading).+ISIN\s+([A-Z0-9]+)'
      [] i = 9 -> ThenIsin(q, { "listing" })
      \* r'(face\s+value).+ISIN\s+([A-Z0-9]+)'
      [] OTHER -> \E i2 \in FaceValueAt(q) : \E j \in IsinAt(q) : i2 < j

\* The test nested in a rule's body that decides whether the rule returns.
DirExtracted(i, q) ==
    CASE i = 4 -> At(q, HasYear) # { }                  \* re.search(r'(\d{4})', query)
      [] i \in { 5, 6, 8, 9, 10 } -> IsinMatch(q)       \* re.search(r'ISIN\s+([A-Z0-9]+)')
      [] i = 7 -> Len(q) > 0                            \* re.search(r'([A-Z0-9]+)')
      [] OTHER -> TRUE


----------------------------------------------------------------------------
(* BondDirectoryAgent: handlers.  A Result is a Python dict, modelled as a  *)
(* record with the keys the dict has; a message is the template and the    *)
(* values put into it.                                                     *)

\* A lookup that compares the letters the ISINs start with.
DirGetIsinDetailsByLetters(isin, db) ==
    LET bond == SelectSeq(db, LAMBDA r : AlphaPrefix(r.isin) = AlphaPrefix(isin))
    IN  IF Len(bond) = 0
        THEN [response_type |-> "error",
              message |-> [template |-> "error_isin_not_found", isin |-> isin]]
        ELSE [response_type |-> "isin_details",
              isin |-> isin,
              message |-> [template |-> "isin_details", isin |-> isin, row |-> bond[1]],
              data |-> bond[1]]

\* _get_isin_details
DirGetIsinDetails(isin, db) ==
    LET bond == SelectSeq(db, LAMBDA r : r.isin = isin)
    IN  IF Len(bond) = 0
        THEN [response_type |-> "error",
              message |-> [template |-> "error_isin_not_found", isin |-> isin]]
        ELSE [response_type |-> "isin_details",
              isin |-> isin,
              message |-> [template |-> "isin_details", isin |-> isin, row |-> bond[1]],
              data |-> bond[1]]

\* An issuer search that compares the names as they are written.
DirGetIssuerIssuancesCaseSensitive(issuer, db) ==
    LET bonds == SelectSeq(db, LAMBDA r : IsInfix(issuer, r.issuer_name))
        total_bonds == Len(bonds)
        active_bonds == Len(SelectSeq(bonds, LAMBDA r : r.status = "Active"))
        matured_bonds == total_bonds - active_bonds
    IN  IF Len(bonds) = 0
        THEN [response_type |-> "error",
              message |-> [template |-> "error_issuer_not_found", issuer |-> issuer]]
        ELSE [response_type |-> "issuer_issuances",
              issuer |-> issuer,
              message |-> [template |-> "issuer_issuances", issuer |-> issuer,
                           total_bonds |-> total_bonds, active_bonds |-> active_bonds,
                           matured_bonds |-> matured_bonds, isins_table |-> bonds],
              data |-> bonds]

\* _get_issuer_issuances
DirGetIssuerIssuances(issuer, db) ==
    LET bonds == SelectSeq(db, LAMBDA r : ContainsNoCase(issuer, r.issuer_name))
        total_bonds == Len(bonds)
        active_bonds == Len(SelectSeq(bonds, LAMBDA r : r.status = "Active"))
        matured_bonds == total_bonds - active_bonds
    IN  IF Len(bonds) = 0
        THEN [response_type |-> "error",
              message |-> [template |-> "error_issuer_not_found", issuer |-> issuer]]
        ELSE [response_type |-> "issuer_issuances",
              issuer |-> issuer,
              message |-> [template |-> "issuer_issuances", issuer |-> issuer,
                           total_bonds |-> total_bonds, active_bonds |-> active_bonds,
                           matured_bonds |-> matured_bonds, isins_table |-> bonds],
              data |-> bonds]

\* The display caps: head(5) of the filtered preview, head(10) of the lists.
PreviewCap == 5
ListCap == 10

\* A notice that is added from the cap on.
MoreNoticeFromCap(count, cap) == IF count >= cap THEN << count - cap >> ELSE << >>

\* The notice that ends a capped list: << >> when nothing is left out.
MoreNotice(count, cap) == IF count > cap THEN << count - cap >> ELSE << >>

\* r'coupon.+above\s+(\d+\.?\d*)%': the places of "above" that match, after "coupon".
CouponAt(q) ==
    { j \in Next2At(q, { "above" }, { "10%" }) : \E i \in At(q, { "coupon" }) : i < j }

\* r'maturity.+after\s+(\d{4})'
MaturityAfterAt(q) ==
    { j \in Next2At(q, { "after" }, HasYear) : \E i \in At(q, { "maturity" }) : i < j }

\* r'rated\s+([A-Z]+[+-]?)'
RatedAt(q) == Next2At(q, { "rated" }, StartsAlpha)
RatedGroup(q) ==
    LET w == q[MinOf(RatedAt(q)) + 1]
    IN  IF w \in Alpha \cup { "AA+", "AA-" } THEN w ELSE AlphaPrefix(w)


\* A security filter applied whether or not the query asks for it.
FilterSecuredAlways(q, rows) == SelectSeq(rows, LAMBDA r : r.security_type = "Secured")

\* The four filters of _filter_bonds, each applied when its expression matches.
FilterSecured(q, rows) ==
    IF At(q, { "secured" }) # { }
    THEN SelectSeq(rows, LAMBDA r : r.security_type = "Secured")
    ELSE rows

FilterCoupon(q, rows) ==
    IF CouponAt(q) # { }
    THEN LET min_rate == NumberOf(q[MaxOf(CouponAt(q)) + 1])
         IN  SelectSeq(rows, LAMBDA r : r.coupon_rate > min_rate)
    ELSE rows

\* A maturity filter that also keeps the rows of the stated year.
FilterMaturityFromYear(q, rows) ==
    IF MaturityAfterAt(q) # { }
    THEN LET year == YearOf(q[MaxOf(MaturityAfterAt(q)) + 1])
             converted == [i \in 1..Len(rows) |->
                             [rows[i] EXCEPT !.redemption_date = to_datetime(@)]]
         IN  SelectSeq(converted,
                        LAMBDA r : r.redemption_date.year # 0 /\ r.redemption_date.year >= year)
    ELSE rows

\* The maturity filter of _filter_bonds (lines 238-244), on its own copy.
FilterMaturity(q, rows) ==
    IF MaturityAfterAt(q) # { }
    THEN LET year == YearOf(q[MaxOf(MaturityAfterAt(q)) + 1])
             converted == [i \in 1..Len(rows) |->
                             [rows[i] EXCEPT !.redemption_date = to_datetime(@)]]
         IN  SelectSeq(converted,
                        LAMBDA r : r.redemption_date.year # 0 /\ r.redemption_date.year > year)
    ELSE rows

\* The credit_rating cell matches the rating the query states (line 251).
RatingCellMatches(pat, cell) == ContainsRegex(pat, cell)

FilterRating(q, rows) ==
    IF RatedAt(q) # { }
    THEN LET rating == RatedGroup(q)
         IN  SelectSeq(rows, LAMBDA r : RatingCellMatches(rating, r.credit_rating))
    ELSE rows

\* A filter whose 'data' is cut at the cap of its preview.
DirFilterBondsCappedData(q, db) ==
    LET filtered_bonds == FilterRating(q, FilterMaturity(q, FilterCoupon(q, FilterSecured(q, db))))
        count == Len(filtered_bonds)
    IN  IF count = 0
        THEN [response_type |-> "no_results",
              message |-> [template |-> "no_bonds_match"]]
        ELSE [response_type |-> "filtered_bonds",
              count |-> count,
              message |-> [template |-> "filtered_bonds", count |-> count,
                           rows |-> Head_n(filtered_bonds, PreviewCap),
                           more |-> MoreNotice(count, PreviewCap)],
              data |-> Head_n(filtered_bonds, PreviewCap)]

\* _filter_bonds
DirFilterBonds(q, db) ==
    LET filtered_bonds == FilterRating(q, FilterMaturity(q, FilterCoupon(q, FilterSecured(q, db))))
        count == Len(filtered_bonds)
    IN  IF count = 0
        THEN [response_type |-> "no_results",
              message |-> [template |-> "no_bonds_match"]]
        ELSE [response_type |-> "filtered_bonds",
              count |-> count,
              message |-> [template |-> "filtered_bonds", count |-> count,
                           rows |-> Head_n(filtered_bonds, PreviewCap),
                           more |-> MoreNotice(count, PreviewCap)],
              data |-> filtered_bonds]

\* _get_bonds_by_maturity_year: the column assignment of its first statement.
ConvertDates(db) ==
    [i \in 1..Len(db) |-> [db[i] EXCEPT !.redemption_date = to_datetime(@)]]

\* _get_bonds_by_maturity_year: the Result, computed on the converted store.
DirGetBondsByMaturityYear(year, db) ==
    LET maturing_bonds == SelectSeq(ConvertDates(db),
                                     LAMBDA r : r.redemption_date.year # 0
                                                /\ r.redemption_date.year = year)
        count == Len(maturing_bonds)
    IN  IF count = 0
        THEN [response_type |-> "no_results",
              message |-> [template |-> "no_bonds_maturing", year |-> year]]
        ELSE [response_type |-> "maturity_bonds",
              year |-> year,
              count |-> count,
              message |-> [template |-> "maturity_bonds", count |-> count, year |-> year,
                           rows |-> Head_n(maturing_bonds, ListCap),
                           more |-> MoreNotice(count, ListCap)],
              data |-> maturing_bonds]

\* _get_cash_flow_schedule: the schedule is the redemption date and the
\* half-yearly dates before it; the model keeps the date it is built from.
DirGetCashFlowSchedule(isin, db) ==
    LET bond == SelectSeq(db, LAMBDA r : r.isin = isin)
    IN  IF Len(bond) = 0
        THEN [response_type |-> "error",
              message |-> [template |-> "error_isin_not_found", isin |-> isin]]
        ELSE [response_type |-> "cash_flow_schedule",
              isin |-> isin,
              message |-> [template |-> "cash_flow_schedule", isin |-> isin,
                           redemption |-> to_datetime(bond[1].redemption_date)],
              data |-> << to_datetime(bond[1].redemption_date) >>]


\* The last letter of a word made of letters, in lower case.
LastLetter(w) ==
    CASE w \in { "tata", "AA", "AAA", "alpha", "beta", "gamma", "aa" } -> "a"
      [] w \in { "find", "secured", "rated", "bond", "yield", "ltd", "and" } -> "d"
      [] w \in { "schedule", "trustee", "face", "value", "above", "where", "more", "available", "the", "compare", "debenture", "price", "calculate", "date", "there" } -> "e"
      [] w \in { "maturing", "listing" } -> "g"
      [] w \in { "search" } -> "h"
      [] w \in { "Capital" } -> "l"
      [] w \in { "from", "platform" } -> "m"
      [] w \in { "isin", "coupon", "than", "in" } -> "n"
      [] w \in { "ugro", "hello", "to", "Ugro", "ratio" } -> "o"
      [] w \in { "offer", "for", "after", "finder", "year" } -> "r"
      [] w \in { "bonds", "debentures", "as", "eps", "pros", "lenders", "news", "is", "cons" } -> "s"
      [] w \in { "best", "about", "payment", "what", "current" } -> "t"
      [] w \in { "show" } -> "w"
      [] w \in { "by", "maturity", "buy", "summary", "company" } -> "y"
      [] OTHER -> ""

----------------------------------------------------------------------------
(* BondDirectoryAgent: the handlers process_query calls whose definitions   *)
(* the source files do not hold, after sections 4.3 and 6 of the           *)
(* specification: a lookup by key that finds no row names the key in an    *)
(* 'error' Result; one that finds its row returns it.                      *)

\* _get_security_details, _get_document_links, _get_debenture_trustee,
\* _get_listing_details, _get_face_value
DirLookupByIsin(isin, db) ==
    LET bond == SelectSeq(db, LAMBDA r : r.isin = isin)
    IN  IF Len(bond) = 0
        THEN [response_type |-> "error",
              message |-> [template |-> "error_isin_not_found", isin |-> isin]]
        ELSE [response_type |-> "isin_details", isin |-> isin,
              message |-> [template |-> "isin_details", isin |-> isin, row |-> bond[1]],
              data |-> bond[1]]

\* _check_isin_issuer_match
DirCheckIsinIssuerMatch(isin, issuer, db) ==
    LET bond == SelectSeq(db, LAMBDA r : r.isin = isin)
    IN  IF Len(bond) = 0
        THEN [response_type |-> "error",
              message |-> [template |-> "error_isin_not_found", isin |-> isin]]
        ELSE IF ~ContainsNoCase(issuer, bond[1].issuer_name)
        THEN [response_type |-> "error",
              message |-> [template |-> "error_mismatch", issuer |-> issuer,
                           correct_issuer |-> bond[1].issuer_name]]
        ELSE [response_type |-> "isin_details", isin |-> isin,
              message |-> [template |-> "isin_details", isin |-> isin, row |-> bond[1]],
              data |-> bond[1]]

----------------------------------------------------------------------------
(* BondDirectoryAgent.process_query: the handler a rule calls, and the scan *)
(* of the rules in the order of the source.                                *)

DirGeneralHelp ==
    [response_type |-> "general_help",
     message |-> [template |-> "directory_general_help"]]

DirHandlerName(i, q) ==
    CASE i = 1 -> IF IssuerMentionAt(q) # { } THEN "_check_isin_issuer_match"
                  ELSE "_get_isin_details"
      [] i = 2 -> "_get_issuer_issuances"
      [] i = 3 -> "_filter_bonds"
      [] i = 4 -> "_get_bonds_by_maturity_year"
      [] i = 5 -> "_get_cash_flow_schedule"
      [] i = 6 -> "_get_security_details"
      [] i = 7 -> "_get_document_links"
      [] i = 8 -> "_get_debenture_trustee"
      [] i = 9 -> "_get_listing_details"
      [] OTHER -> IF FaceIssuerAt(q) # { } THEN "_check_isin_issuer_match"
                  ELSE "_get_face_value"

DirHandle(i, q, db) ==
    CASE i = 1 ->
            IF IssuerMentionAt(q) # { }
            THEN DirCheckIsinIssuerMatch(IsinGroup(q),
                                         LetterRun(q, MinOf(IssuerMentionAt(q)) + 1), db)
            ELSE DirGetIsinDetails(IsinGroup(q), db)
      [] i = 2 -> DirGetIssuerIssuances(LetterRun(q, MaxOf(IssuancesAt(q)) + 1), db)
      [] i = 3 -> DirFilterBonds(q, db)
      [] i = 4 -> DirGetBondsByMaturityYear(YearOf(q[MinOf(At(q, HasYear))]), db)
      [] i = 5 -> DirGetCashFlowSchedule(IsinGroup(q), db)
      [] i = 7 -> DirLookupByIsin(AlnumPrefix(q[1]), db)
      [] i = 10 ->
            IF FaceIssuerAt(q) # { }
            THEN DirCheckIsinIssuerMatch(IsinGroup(q),
                                         << LastLetter(q[MaxOf(FaceIssuerAt(q)) - 1]) >>, db)
            ELSE DirLookupByIsin(IsinGroup(q), db)
      [] OTHER -> DirLookupByIsin(IsinGroup(q), db)

\* The store after rule i has run: only the maturity-year handler assigns to it.
DirStoreAfter(i, db) == IF i = 4 THEN ConvertDates(db) ELSE db

\* The if-chain of process_query from rule i on.
RECURSIVE DirScan(_, _, _)
DirScan(i, q, db) ==
    IF i > 10
    THEN [evaluated |-> << >>, fired |-> 0, handler |-> "none",
          result |-> DirGeneralHelp, db |-> db]
    ELSE IF DirTrigger(i, q) /\ DirExtracted(i, q)
    THEN [evaluated |-> << i >>, fired |-> i, handler |-> DirHandlerName(i, q),
          result |-> DirHandle(i, q, db), db |-> DirStoreAfter(i, db)]
    ELSE LET rest == DirScan(i + 1, q, db)
         IN  [rest EXCEPT !.evaluated = << i >> \o @]

\* A cascade that tests the filter rule before every other rule.
DirProcessQueryFilterFirst(q, db) ==
    IF DirTrigger(3, q)
    THEN [evaluated |-> << 3 >>, fired |-> 3, handler |-> DirHandlerName(3, q),
          result |-> DirHandle(3, q, db), db |-> db]
    ELSE DirScan(1, q, db)

DirProcessQuery(q, db) == DirScan(1, q, db)


----------------------------------------------------------------------------
(* BondFinderAgent.  A row of finder_db keeps issuer (a sequence of words), *)
(* rating, yield_min, yield_max, term_years and the two available_on_      *)
(* columns.                                                                *)

platforms == << "SMEST", "FixedIncome" >>

\* _get_platforms_for_issuer: the rows whose issuer equals the text given.
FinGetPlatformsForIssuer(issuer, db) ==
    LET issuer_bonds == SelectSeq(db, LAMBDA r : r.issuer = issuer)
        Available(p) ==
            \E i \in 1..Len(issuer_bonds) :
                IF p = "SMEST" THEN issuer_bonds[i].available_on_smest
                ELSE issuer_bonds[i].available_on_fixedincome
    IN  SelectSeq(platforms, Available)

\* A row as a table line shows it: the row and the platforms of its issuer.
FinTableLine(r, db) == [row |-> r, platforms |-> FinGetPlatformsForIssuer(r.issuer, db)]
FinTable(rows, db) == [i \in 1..Len(rows) |-> FinTableLine(rows[i], db)]

\* drop_duplicates(subset=['issuer']): the first row of each issuer.
DropDuplicateIssuers(db) ==
    LET Keep(i) == \A j \in 1..(i - 1) : db[j].issuer # db[i].issuer
        RECURSIVE Pick(_)
        Pick(i) == IF i > Len(db) THEN << >>
                   ELSE IF Keep(i) THEN << db[i] >> \o Pick(i + 1)
                   ELSE Pick(i + 1)
    IN  Pick(1)

\* A general-info handler that tags its Result as the fallback does.
FinGetGeneralInfoTaggedHelp(db) ==
    LET sample_bonds == Head_n(DropDuplicateIssuers(db), 5)
    IN  [response_type |-> "general_help",
         message |-> [template |-> "general_info", rows |-> FinTable(sample_bonds, db)],
         data |-> sample_bonds]

\* _get_general_info
FinGetGeneralInfo(db) ==
    LET sample_bonds == Head_n(DropDuplicateIssuers(db), 5)
    IN  [response_type |-> "general_info",
         message |-> [template |-> "general_info", rows |-> FinTable(sample_bonds, db)],
         data |-> sample_bonds]

\* _get_platform_availability
FinGetPlatformAvailability(issuer, db) ==
    LET issuer_bonds == SelectSeq(db, LAMBDA r : ContainsNoCase(issuer, r.issuer))
        found == FinGetPlatformsForIssuer(issuer, db)
        min_yield == MinOf({ issuer_bonds[i].yield_min : i \in 1..Len(issuer_bonds) })
        max_yield == MaxOf({ issuer_bonds[i].yield_max : i \in 1..Len(issuer_bonds) })
    IN  IF Len(issuer_bonds) = 0
        THEN [response_type |-> "error",
              message |-> [template |-> "error_issuer_not_found", issuer |-> issuer]]
        ELSE [response_type |-> "platform_availability",
              issuer |-> issuer,
              message |-> [template |-> "platform_availability", issuer |-> issuer,
                           platforms |-> found, yield_range |-> << min_yield, max_yield >>],
              data |-> [issuer |-> issuer, platforms |-> found,
                        yield_range |-> << min_yield, max_yield >>]]

\* A yield search that also keeps the rows at the threshold.
FinGetBondsByYieldInclusive(min_yield, db) ==
    LET high_yield_bonds == SelectSeq(db, LAMBDA r : r.yield_max >= min_yield)
    IN  IF Len(high_yield_bonds) = 0
        THEN [response_type |-> "no_results",
              message |-> [template |-> "no_bonds_with_yield", min_yield |-> min_yield]]
        ELSE [response_type |-> "yield_based_search",
              min_yield |-> min_yield,
              message |-> [template |-> "yield_based_search", min_yield |-> min_yield,
                           rows |-> FinTable(Head_n(high_yield_bonds, ListCap), db),
                           more |-> MoreNotice(Len(high_yield_bonds), ListCap)],
              data |-> high_yield_bonds]

\* _get_bonds_by_yield
FinGetBondsByYield(min_yield, db) ==
    LET high_yield_bonds == SelectSeq(db, LAMBDA r : r.yield_max > min_yield)
    IN  IF Len(high_yield_bonds) = 0
        THEN [response_type |-> "no_results",
              message |-> [template |-> "no_bonds_with_yield", min_yield |-> min_yield]]
        ELSE [response_type |-> "yield_based_search",
              min_yield |-> min_yield,
              message |-> [template |-> "yield_based_search", min_yield |-> min_yield,
                           rows |-> FinTable(Head_n(high_yield_bonds, ListCap), db),
                           more |-> MoreNotice(Len(high_yield_bonds), ListCap)],
              data |-> high_yield_bonds]

\* _get_best_yield_comparison; term is << >> for None and << n >> for n.
FinGetBestYieldComparison(term, db) ==
    LET filtered_bonds ==
            IF term # << >> THEN SelectSeq(db, LAMBDA r : r.term_years = term[1]) ELSE db
        top == MaxOf({ filtered_bonds[i].yield_max : i \in 1..Len(filtered_bonds) })
        best_bond == filtered_bonds[MinOf({ i \in 1..Len(filtered_bonds) :
                                              filtered_bonds[i].yield_max = top })]
        found == FinGetPlatformsForIssuer(best_bond.issuer, db)
        best_platform == IF Len(found) > 0 THEN found[1] ELSE "N/A"
    IN  IF Len(filtered_bonds) = 0
        THEN [response_type |-> "no_results",
              message |-> [template |-> "no_bonds_for_term", term |-> term]]
        ELSE [response_type |-> "best_yield_comparison",
              term |-> term,
              message |-> [template |-> "best_yield_comparison", platform |-> best_platform,
                           yield_value |-> best_bond.yield_max, term |-> term],
              data |-> [platform |-> best_platform, issuer |-> best_bond.issuer,
                        yield |-> best_bond.yield_max, term |-> term]]

\* A rating search that tags its list with a name of its own.
FinGetBondsByRatingTaggedSearch(rating, db) ==
    LET rating_bonds == SelectSeq(db, LAMBDA r : ContainsLiteral(rating, r.rating))
    IN  IF Len(rating_bonds) = 0
        THEN [response_type |-> "no_results",
              message |-> [template |-> "no_bonds_with_rating", rating |-> rating]]
        ELSE [response_type |-> "rating_search",
              rating |-> rating,
              message |-> [template |-> "rating_based_search", rating |-> rating,
                           rows |-> FinTable(Head_n(rating_bonds, ListCap), db),
                           more |-> MoreNotice(Len(rating_bonds), ListCap)],
              data |-> rating_bonds]

\* _get_bonds_by_rating
FinGetBondsByRating(rating, db) ==
    LET rating_bonds == SelectSeq(db, LAMBDA r : ContainsLiteral(rating, r.rating))
    IN  IF Len(rating_bonds) = 0
        THEN [response_type |-> "no_results",
              message |-> [template |-> "no_bonds_with_rating", rating |-> rating]]
        ELSE [response_type |-> "rating_based_search",
              rating |-> rating,
              message |-> [template |-> "rating_based_search", rating |-> rating,
                           rows |-> FinTable(Head_n(rating_bonds, ListCap), db),
                           more |-> MoreNotice(Len(rating_bonds), ListCap)],
              data |-> rating_bonds]

FinGeneralHelp ==
    [response_type |-> "general_help",
     message |-> [template |-> "finder_general_help"]]

\* r'(show|what).+(available|bonds).+(bond\s+finder)'
FinGeneralAt(q) ==
    { k \in Next2At(q, { "bond" }, { "finder" }) :
        \E i \in At(q, { "show", "what" }) :
            \E j \in At(q, { "available", "bonds" }) : i < j /\ j < k }

\* r'(where|which platform).+(buy|purchase|find).+from\s+([A-Za-z\s]+)'
FinPlatformAt(q) ==
    { k \in Next2At(q, { "from" }, StartsAlpha) :
        \E i \in At(q, { "where" }) :
            \E j \in At(q, { "buy", "find", "finder" }) : i < j /\ j < k }

\* r'(yield|bonds).+(more|greater|higher|above)\s+than\s+(\d+\.?\d*)'
FinYieldAt(q) ==
    { j \in Next2At(q, { "more", "above" }, { "than" }) :
        /\ j + 2 <= Len(q) /\ q[j + 2] \in StartsDigit
        /\ \E i \in At(q, { "yield", "bonds" }) : i < j }

\* r'(\d+)[\s-]year'
FinTermAt(q) == Next2At(q, EndsDigit, { "year" })

\* r'(rating|rated).+(of|as|with)\s+([A-Z]+[+-]?)'
FinRatingAt(q) ==
    { j \in Next2At(q, { "as" }, StartsAlpha) : \E i \in At(q, { "rated" }) : i < j }

\* The text "[A-Z]+[+-]?" captures at the start of a word.
RatingGroup(w) == IF w \in Alpha \cup { "AA+", "AA-" } THEN w ELSE AlphaPrefix(w)

FinderRules == 1..5

FinTrigger(i, q) ==
    CASE i = 1 -> FinGeneralAt(q) # { }
      [] i = 2 -> FinPlatformAt(q) # { }
      [] i = 3 -> FinYieldAt(q) # { }
      \* r'(best|highest|maximum).+(yield|return)'
      [] i = 4 -> Then(q, { "best" }, { "yield" })
      [] OTHER -> FinRatingAt(q) # { }

FinHandlerName(i) ==
    CASE i = 1 -> "_get_general_info"
      [] i = 2 -> "_get_platform_availability"
      [] i = 3 -> "_get_bonds_by_yield"
      [] i = 4 -> "_get_best_yield_comparison"
      [] OTHER -> "_get_bonds_by_rating"

FinHandle(i, q, db) ==
    CASE i = 1 -> FinGetGeneralInfo(db)
      [] i = 2 -> FinGetPlatformAvailability(LetterRun(q, MaxOf(FinPlatformAt(q)) + 1), db)
      [] i = 3 -> FinGetBondsByYield(NumberOf(q[MaxOf(FinYieldAt(q)) + 2]), db)
      [] i = 4 -> FinGetBestYieldComparison(
                      IF FinTermAt(q) # { }
                      THEN << TrailingNumber(q[MinOf(FinTermAt(q))]) >> ELSE << >>, db)
      [] OTHER -> FinGetBondsByRating(Upper(RatingGroup(q[MaxOf(FinRatingAt(q)) + 1])), db)

\* The if-chain of process_query from rule i on.
RECURSIVE FinScan(_, _, _)
FinScan(i, q, db) ==
    IF i > 5
    THEN [evaluated |-> << >>, fired |-> 0, handler |-> "none", result |-> FinGeneralHelp]
    ELSE IF FinTrigger(i, q)
    THEN [evaluated |-> << i >>, fired |-> i, handler |-> FinHandlerName(i),
          result |-> FinHandle(i, q, db)]
    ELSE LET rest == FinScan(i + 1, q, db)
         IN  [rest EXCEPT !.evaluated = << i >> \o @]

FinProcessQuery(q, db) == FinScan(1, q, db)


----------------------------------------------------------------------------
(* BondScreenerAgent.  company_db is the company_name column: a sequence of *)
(* names, each a sequence of words.  An absent company name (None) is << >>.*)

\* A validation that compares the names as they are written.
KnownCompanyCaseSensitive(text, db) == \E i \in 1..Len(db) : IsInfix(text, db[i])

\* any(self.company_db['company_name'].str.contains(text, case=False, na=False))
KnownCompany(text, db) == \E i \in 1..Len(db) : ContainsNoCase(text, db[i])

\* "([A-Za-z\s]+?)\s+(K)" from word i on, r being the first word the captured
\* text may start with: the texts re.findall returns, in order.  A word not
\* made of letters ends the text before it; a word of K that follows at least
\* one word ends it with a match.
RECURSIVE LazyRuns(_, _, _, _)
LazyRuns(q, i, r, K) ==
    IF i > Len(q) THEN << >>
    ELSE IF q[i] \notin Alpha THEN LazyRuns(q, i + 1, i + 1, K)
    ELSE IF q[i] \in K /\ i > r THEN << SubSeq(q, r, i - 1) >> \o LazyRuns(q, i + 1, i + 1, K)
    ELSE LazyRuns(q, i + 1, r, K)

CompanyWords == { "company", "ltd" }        \* (company|limited|ltd)
MetricWords == { "eps" }                    \* (rating|EPS|sector|industry)
JoinWords == { "company", "ltd", "and", "to" }   \* (company|limited|ltd|and|with|to)

\* The words of K that end a text starting at word r and made of letters.
AnchoredEnds(q, r, K) ==
    { k \in (r + 1)..Len(q) : q[k] \in K /\ \A m \in r..(k - 1) : q[m] \in Alpha }

\* r'(for|about|on)\s+([A-Za-z\s]+?)\s+(company|limited|ltd)': the places of
\* the first word, and the text captured after place i.
AboutAt(q) ==
    { i \in At(q, { "for", "about", "coupon" }) : AnchoredEnds(q, i + 1, CompanyWords) # { } }

AboutGroup(q, i) == SubSeq(q, i + 1, MinOf(AnchoredEnds(q, i + 1, CompanyWords)) - 1)

\* The candidate each pattern of _extract_company_name yields: << >> when the
\* pattern does not match, else << text >>.
CompanyCandidate(p, q) ==
    CASE p = 1 -> IF AboutAt(q) # { } THEN << AboutGroup(q, MinOf(AboutAt(q))) >> ELSE << >>
      [] p = 2 -> Head_n(LazyRuns(q, 1, 1, CompanyWords), 1)
      [] OTHER -> Head_n(LazyRuns(q, 1, 1, MetricWords), 1)

\* _extract_company_name: the loop over the patterns from pattern p on.
RECURSIVE ExtractCompanyFrom(_, _, _)
ExtractCompanyFrom(p, q, db) ==
    IF p > 3 THEN << >>
    ELSE LET c == CompanyCandidate(p, q)
         IN  IF c # << >> /\ KnownCompany(c[1], db) THEN c[1]
             ELSE ExtractCompanyFrom(p + 1, q, db)

ScrExtractCompanyName(q, db) == ExtractCompanyFrom(1, q, db)

\* _extract_multiple_companies
ScrExtractMultipleCompanies(q, db) ==
    LET named == SelectSeq(LazyRuns(q, 1, 1, JoinWords), LAMBDA c : KnownCompany(c, db))
        RECURSIVE AddWords(_, _)
        AddWords(i, companies) ==
            IF i > Len(q) THEN companies
            ELSE IF /\ \A k \in 1..Len(companies) : companies[k] # << q[i] >>
                    /\ q[i] \in LongerThan3
                    /\ KnownCompany(<< q[i] >>, db)
                 THEN AddWords(i + 1, Append(companies, << q[i] >>))
                 ELSE AddWords(i + 1, companies)
    IN  IF Len(named) < 2 THEN AddWords(1, named) ELSE named

\* r'(summary|information|about)\s+(for|about|on)\s+'
ScrSummaryMatch(q) ==
    \E i \in At(q, { "summary", "about" }) :
        i + 2 <= Len(q) /\ q[i + 1] \in { "for", "about" }

\* r'(what|get|show).+(is|the)\s+(EPS|current ratio|...|ROE|ROA)'
ScrMetricAt(q) ==
    { j \in Next2At(q, { "is", "the" }, { "eps" }) :
        \E i \in At(q, { "what", "show" }) : i < j }

\* r'compare\s+(EPS|current ratio|...|ROE|ROA).+(\w+).+(\w+)'
ScrCompareAt(q) ==
    { i \in Next2At(q, { "compare" }, { "eps" }) :
        \/ i + 3 <= Len(q)
        \/ i + 2 <= Len(q) /\ q[i + 2] \in StartsWith3Alnum }

ScreenerRules == 1..7

\* The expression a rule of process_query searches for (rule 7, the summary
\* by default, searches for none).
ScrTrigger(i, q) ==
    CASE i = 1 -> ScrSummaryMatch(q)
      [] i = 2 -> ScrMetricAt(q) # { }
      [] i = 3 -> ScrCompareAt(q) # { }
      \* r'(pros|cons|strengths|weaknesses)'
      [] i = 4 -> At(q, { "pros", "cons" }) # { }
      \* r'(lenders|lent|borrowed|loan)'
      [] i = 5 -> At(q, { "lenders" }) # { }
      \* r'(news|recent|updates|articles)'
      [] i = 6 -> At(q, { "news" }) # { }
      [] OTHER -> TRUE

\* What a rule needs besides its expression before it returns.
ScrExtracted(i, q, db) ==
    IF i = 3 THEN Len(ScrExtractMultipleCompanies(q, db)) >= 2
    ELSE ScrExtractCompanyName(q, db) # << >>

ScrHandlerName(i) ==
    CASE i \in { 1, 7 } -> "_get_company_summary"
      [] i = 2 -> "_get_company_metric"
      [] i = 3 -> "_compare_company_metrics"
      [] i = 4 -> "_get_pros_cons"
      [] i = 5 -> "_get_lenders"
      [] OTHER -> "_get_recent_news"

\* _get_company_summary: its only statement reads the name isin, which the
\* method does not define.
ScrGetCompanySummary(company_name) == [exception |-> "NameError"]

\* The handlers of process_query whose definitions the source files do not
\* hold, after section 6 of the specification: each returns its own tag.
ScrMissingHandler(i, q, db) ==
    LET company_name == ScrExtractCompanyName(q, db)
    IN  CASE i = 2 -> [response_type |-> "company_metric",
                       message |-> [template |-> "company_metric",
                                    company_name |-> company_name, metric_name |-> "eps"]]
          [] i = 3 -> [response_type |-> "compare_metrics",
                       message |-> [template |-> "compare_metrics", metric_name |-> "eps",
                                    companies |-> ScrExtractMultipleCompanies(q, db)]]
          [] i = 4 -> [response_type |-> "pros_cons",
                       message |-> [template |-> "pros_cons", company_name |-> company_name]]
          [] i = 5 -> [response_type |-> "lenders_list",
                       message |-> [template |-> "lenders_list", company_name |-> company_name]]
          [] OTHER -> [response_type |-> "recent_news",
                       message |-> [template |-> "recent_news", company_name |-> company_name]]

ScrHandle(i, q, db) ==
    IF i \in { 1, 7 } THEN ScrGetCompanySummary(ScrExtractCompanyName(q, db))
    ELSE ScrMissingHandler(i, q, db)

ScrGeneralHelp ==
    [response_type |-> "general_help",
     message |-> [template |-> "screener_general_help"]]

\* The if-chain of process_query from rule i on.
RECURSIVE ScrScan(_, _, _)
ScrScan(i, q, db) ==
    IF i > 7
    THEN [evaluated |-> << >>, fired |-> 0, handler |-> "none", result |-> ScrGeneralHelp]
    ELSE IF ScrTrigger(i, q) /\ ScrExtracted(i, q, db)
    THEN [evaluated |-> << i >>, fired |-> i, handler |-> ScrHandlerName(i),
          result |-> ScrHandle(i, q, db)]
    ELSE LET rest == ScrScan(i + 1, q, db)
         IN  [rest EXCEPT !.evaluated = << i >> \o @]

ScrProcessQuery(q, db) == ScrScan(1, q, db)


----------------------------------------------------------------------------
(* OrchestratorAgent.  agent_patterns: for each agent type, in the order   *)
(* of the dict, the number of matches re.findall returns for each of its   *)
(* patterns.  A pattern with ".+" matches at most once (the .+ runs to the *)
(* last place the rest can match); the others match once per occurrence.   *)

AgentTypes == << "bond_directory", "bond_finder", "cash_flow", "bond_screener",
                 "yield_calculator" >>

B2N(b) == IF b THEN 1 ELSE 0

\* r'ISIN\s+([A-Z0-9]+)': the matches from word i on; a match takes two words.
RECURSIVE CountIsin(_, _)
CountIsin(q, i) ==
    IF i >= Len(q) THEN 0
    ELSE IF q[i] \in EndsIsin /\ q[i + 1] \in StartsAlnum THEN 1 + CountIsin(q, i + 2)
    ELSE CountIsin(q, i + 1)

HasIsinOrBond == { "isin", "bond", "bonds" }                 \* (ISIN|bond)
HasDateInOn ==                                               \* (date|in|on)
    { "INE1", "INE9", "bond", "bonds", "cons", "coupon", "date", "find", "finder",
      "in", "ine1", "isin", "listing", "maturing" }

\* r'(issuer|coupon|maturity|face value|rating).*bond'
IssuerBondMatch(q) ==
    \/ Then(q, { "coupon", "maturity" }, { "bond", "bonds" })
    \/ \E i \in FaceValueAt(q) : \E j \in At(q, { "bond", "bonds" }) : i < j

\* r'(available|find|where.+buy).+(bonds|yield)'
AvailableMatch(q) ==
    \/ Then(q, { "available", "find", "finder" }, { "bonds", "yield" })
    \/ \E i \in At(q, { "where" }) : \E j \in At(q, { "buy" }) :
          \E k \in At(q, { "bonds", "yield" }) : i < j /\ j < k

\* Positions i with words i, i+1, i+2 ending in a, being b, starting with c ("a\s+b\s+c").
Next3At(q, a, b, c) ==
    { i \in Next2At(q, a, b) : i + 2 <= Len(q) /\ q[i + 2] \in c }

PatternCounts(agent_type, q) ==
    CASE agent_type = "bond_directory" ->
            << CountIsin(q, 1),
               \* r'(show|find|get|details|information).+(ISIN|bond)'
               B2N(Then(q, { "show", "find", "finder" }, HasIsinOrBond)),
               B2N(IssuerBondMatch(q)),
               \* r'(debenture|trustee)'
               Cardinality(At(q, { "debenture", "debentures", "trustee" })),
               \* r'(issuances|issued|bonds).+(by|from)\s+([A-Za-z\s]+)'
               B2N(IssuancesAt(q) # { }) >>
      [] agent_type = "bond_finder" ->
            << B2N(AvailableMatch(q)),
               \* r'(compare|best|highest).+(yield|platform)'
               B2N(Then(q, { "compare", "best" }, { "yield", "platform" })),
               \* r'(bonds|yield).+(platform|SMEST|FixedIncome)'
               B2N(Then(q, { "bonds", "yield" }, { "platform" })),
               \* r'bond\s+finder'
               Cardinality(Next2At(q, { "bond" }, { "finder" })) >>
      [] agent_type = "cash_flow" ->
            << \* r'(cash\s+flow|payment|schedule).+(ISIN|bond)'
               B2N(Then(q, { "payment", "schedule" }, HasIsinOrBond)),
               \* r'(maturity|maturing|redemption).+(date|in|on)'
               B2N(Then(q, { "maturity", "maturing" }, HasDateInOn)),
               \* r'(interest|coupon).+(payment|date)'
               B2N(Then(q, { "coupon" }, { "payment", "date" })) >>
      [] agent_type = "bond_screener" ->
            << \* r'(company|financial|analysis|metrics|ratio)'
               Cardinality(At(q, { "company", "ratio" })),
               \* r'(EPS|debt|equity|EBITDA|interest\s+coverage|ratio)'
               Cardinality(At(q, { "eps", "ratio" })),
               \* r'(compare|pros|cons|lenders|news|rating|sector|industry)'
               Cardinality(At(q, { "compare", "pros", "cons", "lenders", "news" })),
               \* r'(current\s+ratio|growth\s+rate)'
               Cardinality(Next2At(q, { "current" }, { "ratio" })) >>
      [] OTHER ->
            << \* r'(calculate|computation|calculation).+(yield|price|consideration)'
               B2N(Then(q, { "calculate" }, { "yield", "price" })),
               \* r'(clean\s+price|consideration).+(bond|ISIN)'
               B2N(\E i \in Next2At(q, { "clean" }, { "price" }) :
                       \E j \in At(q, HasIsinOrBond) : i + 1 < j),
               \* r'price\s+to\s+yield'
               Cardinality(Next3At(q, { "price" }, { "to" }, { "yield" })),
               \* r'yield\s+to\s+price'
               Cardinality(Next3At(q, { "yield" }, { "to" }, { "price" })) >>

RECURSIVE SumSeq(_)
SumSeq(s) == IF s = << >> THEN 0 ELSE Head(s) + SumSeq(Tail(s))

\* The matches of all the patterns of an agent type (what the loop adds to its score).
PatternScore(agent_type, q) == SumSeq(PatternCounts(agent_type, q))

InSeq(x, s) == \E i \in 1..Len(s) : s[i] = x

\* determine_agent, the scoring loop from the k-th agent type of
\* agent_patterns on: the scores, or the KeyError of scores[agent_type] += ...
\* for a type that is no key of specialized_agents.
RECURSIVE ScoreLoop(_, _, _, _)
ScoreLoop(k, q, agents, scores) ==
    IF k > Len(AgentTypes) THEN [raised |-> FALSE, scores |-> scores]
    ELSE LET agent_type == AgentTypes[k]
             n == PatternScore(agent_type, q)
         IN  IF n > 0 /\ ~InSeq(agent_type, agents)
             THEN [raised |-> TRUE, key |-> agent_type]
             ELSE ScoreLoop(k + 1, q, agents,
                            [a \in DOMAIN scores |->
                                IF a = agent_type THEN scores[a] + n ELSE scores[a]])

\* max(scores, key=scores.get): the first key, in the order of the dict, with the top score.
FirstMax(agents, scores) ==
    LET top == MaxOf({ scores[agents[i]] : i \in 1..Len(agents) })
    IN  agents[MinOf({ i \in 1..Len(agents) : scores[agents[i]] = top })]

\* A determine_agent whose default is the first registered agent.
DetermineAgentFirstRegistered(q, agents) ==
    LET scored == ScoreLoop(1, q, agents, [a \in { agents[i] : i \in 1..Len(agents) } |-> 0])
    IN  IF scored.raised THEN [exception |-> "KeyError", key |-> scored.key]
        ELSE IF MaxOf({ scored.scores[a] : a \in DOMAIN scored.scores }) > 0
        THEN [agent_type |-> FirstMax(agents, scored.scores)]
        ELSE [agent_type |-> agents[1]]

\* determine_agent
DetermineAgent(q, agents) ==
    LET scored == ScoreLoop(1, q, agents, [a \in { agents[i] : i \in 1..Len(agents) } |-> 0])
    IN  IF scored.raised THEN [exception |-> "KeyError", key |-> scored.key]
        ELSE IF MaxOf({ scored.scores[a] : a \in DOMAIN scored.scores }) > 0
        THEN [agent_type |-> FirstMax(agents, scored.scores)]
        ELSE [agent_type |-> "bond_directory"]

\* Fractions << numerator, denominator >> stand for the floats of _calculate_confidence.
QAdd(x, y) == << x[1] * y[2] + y[1] * x[2], x[2] * y[2] >>
QMul(x, y) == << x[1] * y[1], x[2] * y[2] >>
QLeq(x, y) == x[1] * y[2] <= y[1] * x[2]
QEq(x, y) == x[1] * y[2] = y[1] * x[2]
QMin(x, y) == IF QLeq(x, y) THEN x ELSE y
Half == << 1, 2 >>
One == << 1, 1 >>

\* What a pattern found count times adds to the count of every occurrence.
PatternOccurrences(count) == count

\* What a pattern found count times adds to matches in the confidence loop:
\* re.search finds it or not.
PatternHit(count) == IF count > 0 THEN 1 ELSE 0

\* A confidence that divides by total_patterns, the patterns of all agent types.
CalculateConfidenceOfAllPatterns(q, agent_type) ==
    LET counts == PatternCounts(agent_type, q)
        matches == SumSeq([k \in 1..Len(counts) |-> PatternHit(counts[k])])
        total_patterns == SumSeq([k \in 1..Len(AgentTypes) |->
                                     Len(PatternCounts(AgentTypes[k], q))])
    IN  IF matches = 0 THEN Half
        ELSE QMin(QAdd(Half, QMul(<< matches, total_patterns >>, Half)), One)

\* _calculate_confidence
CalculateConfidence(q, agent_type) ==
    LET counts == PatternCounts(agent_type, q)
        matches == SumSeq([k \in 1..Len(counts) |-> PatternHit(counts[k])])
    IN  IF matches = 0 THEN Half
        ELSE QMin(QAdd(Half, QMul(<< matches, Len(counts) >>, Half)), One)

\* The process_query of the agent registered under a key, on the stores.
AgentProcessQuery(agent_type, q, bonds, finder, companies) ==
    CASE agent_type = "bond_directory" -> DirProcessQuery(q, bonds)
      [] agent_type = "bond_finder" -> FinProcessQuery(q, finder)
      [] OTHER -> ScrProcessQuery(q, companies)

\* OrchestratorAgent.process_query: the envelope, or the exception that ends the call.
OrchestratorProcess(q, agents, bonds, finder, companies) ==
    LET routed == DetermineAgent(q, agents)
    IN  IF "exception" \in DOMAIN routed
        THEN [result |-> routed, invoked |-> << >>, bonds |-> bonds]
        ELSE IF ~InSeq(routed.agent_type, agents)
        THEN [result |-> [exception |-> "KeyError", key |-> routed.agent_type],
              invoked |-> << >>, bonds |-> bonds]
        ELSE LET agent_type == routed.agent_type
                 answered == AgentProcessQuery(agent_type, q, bonds, finder, companies)
                 response == answered.result
             IN  [result |->
                     IF "exception" \in DOMAIN response THEN response
                     ELSE [agent_type |-> agent_type, response |-> response, query |-> q,
                           confidence |-> CalculateConfidence(q, agent_type)],
                  invoked |-> << agent_type >>,
                  bonds |-> IF agent_type = "bond_directory" THEN answered.db ELSE bonds]

----------------------------------------------------------------------------
(* The stores and the queries of the scenarios. *)

BondRow(isin, issuer_name, coupon_rate, redemption_date, credit_rating, status, security_type) ==
    [isin |-> isin, issuer_name |-> issuer_name, coupon_rate |-> coupon_rate,
     redemption_date |-> redemption_date, credit_rating |-> credit_rating,
     status |-> status, security_type |-> security_type]

SampleBonds ==
    << BondRow("INE1", << "Ugro", "Capital" >>, 11, DateText(2027), "AA+", "Active", "Secured"),
       BondRow("INE2", << "Ugro", "Capital" >>, 10, DateText(2026), "AA", "Matured", "Unsecured"),
       BondRow("INE3", << "Tata", "Power" >>, 11, DateText(0), "AAA", "Active", "Secured") >>

FinderRow(issuer, rating, yield_min, yield_max, term_years, smest, fixedincome) ==
    [issuer |-> issuer, rating |-> rating, yield_min |-> yield_min, yield_max |-> yield_max,
     term_years |-> term_years, available_on_smest |-> smest,
     available_on_fixedincome |-> fixedincome]

SampleFinder ==
    << FinderRow(<< "Ugro", "Capital" >>, "AA+", 7, 9, 3, TRUE, FALSE),
       FinderRow(<< "Tata", "Power" >>, "AA", 6, 8, 5, FALSE, TRUE),
       FinderRow(<< "Ugro", "Capital" >>, "AAA", 8, 10, 3, FALSE, TRUE) >>

SampleCompanies == << << "Alpha", "Power" >>, << "Beta", "Capital" >> >>

\* The queries made of at most n phrases of P, a phrase being a few words.
RECURSIVE PhraseQueries(_, _)
PhraseQueries(P, n) ==
    IF n = 0 THEN { << >> }
    ELSE LET shorter == PhraseQueries(P, n - 1)
         IN  shorter \cup { q \o p : q \in shorter, p \in P }

DirPhrases ==
    { << "isin", "INE1" >>, << "isin", "INE9" >>, << "bonds", "by", "ugro" >>,
      << "by", "tata" >>, << "find", "bonds" >>, << "search", "bonds" >>, << "bonds" >>,
      << "find" >>, << "secured" >>, << "coupon", "above", "10%" >>,
      << "maturity", "2026" >>, << "maturing", "in", "2025" >>, << "schedule", "for" >>,
      << "offer", "for" >>, << "trustee" >>, << "listing" >>, << "face", "value" >>,
      << "hello" >> }

FinPhrases ==
    { << "show", "bonds" >>, << "bond", "finder" >>, << "where", "buy" >>,
      << "from", "ugro" >>, << "bonds", "more", "than", "8" >>, << "best", "yield" >>,
      << "3", "year" >>, << "rated", "as", "AA" >>, << "bonds" >>, << "yield" >>,
      << "available" >>, << "hello" >> }

ScrPhrases ==
    { << "alpha", "ltd" >>, << "gamma", "ltd" >>, << "alpha", "eps" >>,
      << "summary", "about" >>,
      << "show", "the", "eps" >>, << "compare", "eps" >>, << "alpha", "beta" >>,
      << "compare", "eps", "alpha", "beta" >>, << "alpha" >>, << "beta" >>, << "for" >>,
      << "pros" >>, << "lenders" >>, << "news" >>, << "and" >>, << "hello" >> }

NoResult == [response_type |-> "none"]

\* The part of the initial state that every scenario shares: nothing called yet.
InitCalls ==
    /\ called = "none"
    /\ query = << >>
    /\ result = NoResult
    /\ evaluated = << >>
    /\ fired = 0
    /\ handler = "none"
    /\ invoked = << >>

----------------------------------------------------------------------------
(* Actions: one call of an entry point on the next pending query. *)

\* BondDirectoryAgent.process_query
DirectoryProcessQuery ==
    /\ pending # << >>
    /\ LET r == DirProcessQuery(Head(pending), bonds_db)
       IN  /\ result' = r.result
           /\ evaluated' = r.evaluated
           /\ fired' = r.fired
           /\ handler' = r.handler
           /\ bonds_db' = r.db
    /\ called' = "bond_directory"
    /\ query' = Head(pending)
    /\ pending' = Tail(pending)
    /\ UNCHANGED << finder_db, company_db, specialized_agents, invoked >>

\* BondFinderAgent.process_query
FinderProcessQuery ==
    /\ pending # << >>
    /\ LET r == FinProcessQuery(Head(pending), finder_db)
       IN  /\ result' = r.result
           /\ evaluated' = r.evaluated
           /\ fired' = r.fired
           /\ handler' = r.handler
    /\ called' = "bond_finder"
    /\ query' = Head(pending)
    /\ pending' = Tail(pending)
    /\ UNCHANGED << bonds_db, finder_db, company_db, specialized_agents, invoked >>

\* BondScreenerAgent.process_query
ScreenerProcessQuery ==
    /\ pending # << >>
    /\ LET r == ScrProcessQuery(Head(pending), company_db)
       IN  /\ result' = r.result
           /\ evaluated' = r.evaluated
           /\ fired' = r.fired
           /\ handler' = r.handler
    /\ called' = "bond_screener"
    /\ query' = Head(pending)
    /\ pending' = Tail(pending)
    /\ UNCHANGED << bonds_db, finder_db, company_db, specialized_agents, invoked >>

----------------------------------------------------------------------------
(* The cascade scenario: each agent answers one query made of phrases.     *)

CascadeQueries ==
    PhraseQueries(DirPhrases, MaxPhrases) \cup PhraseQueries(FinPhrases, MaxPhrases)
    \cup PhraseQueries(ScrPhrases, MaxPhrases)

InitCascade ==
    /\ bonds_db \in { SampleBonds, << >> }
    /\ finder_db = SampleFinder
    /\ company_db = SampleCompanies
    /\ specialized_agents = << >>
    /\ pending \in { << q >> : q \in CascadeQueries }
    /\ InitCalls

NextCascade == DirectoryProcessQuery \/ FinderProcessQuery \/ ScreenerProcessQuery

SpecCascade == InitCascade /\ [][NextCascade]_vars

----------------------------------------------------------------------------
(* The routing scenario: an orchestrator over some of the repository's     *)
(* agents answers one query made of phrases.                               *)

RoutePhrases ==
    { << "hello", "there" >>, << "search", "bonds" >>, << "isin", "INE1" >>,
      << "show", "bonds" >>, << "debenture", "trustee" >>, << "bonds", "by", "ugro" >>,
      << "find", "yield" >>, << "best", "yield" >>, << "bond", "finder" >>,
      << "maturing", "in", "2026" >>, << "price", "to", "yield" >>, << "company" >>,
      << "eps" >>, << "pros", "cons" >>, << "alpha", "ltd" >>, << "current", "ratio" >>,
      << "coupon", "payment" >>, << "where", "to", "buy" >> }

RouteQueries == PhraseQueries(RoutePhrases, MaxPhrases)

\* The agent classes of the repository, by the key the orchestrator knows them by.
RepositoryAgents == { "bond_directory", "bond_finder", "bond_screener" }

\* The dicts of agents an orchestrator can be built over: the non-empty
\* sequences of distinct keys (a dict keeps the order of insertion).
Registrations ==
    { r \in UNION { [1..n -> RepositoryAgents] : n \in 1..Cardinality(RepositoryAgents) } :
        \A i, j \in 1..Len(r) : i # j => r[i] # r[j] }

\* OrchestratorAgent.process_query
OrchestratorProcessQuery ==
    /\ pending # << >>
    /\ specialized_agents # << >>
    /\ LET r == OrchestratorProcess(Head(pending), specialized_agents,
                                    bonds_db, finder_db, company_db)
       IN  /\ result' = r.result
           /\ invoked' = r.invoked
           /\ bonds_db' = r.bonds
    /\ called' = "orchestrator"
    /\ query' = Head(pending)
    /\ pending' = Tail(pending)
    /\ UNCHANGED << finder_db, company_db, specialized_agents, evaluated, fired, handler >>

InitRouter ==
    /\ bonds_db = SampleBonds
    /\ finder_db = SampleFinder
    /\ company_db = SampleCompanies
    /\ specialized_agents \in Registrations
    /\ pending \in { << q >> : q \in RouteQueries }
    /\ InitCalls

NextRouter == OrchestratorProcessQuery

SpecRouter == InitRouter /\ [][NextRouter]_vars

----------------------------------------------------------------------------
(* The filter scenario: the directory and finder agents answer one list    *)
(* query, on small stores whose rows differ in every filtered column and   *)
(* on long stores around the display caps.                                 *)

\* The ISIN of the i-th row of a generated store.
RowIsin(i) == "INE10" \o ToString(i)

\* Rows that differ in the columns _filter_bonds tests; the year 0 is a
\* redemption date that does not parse.
RowKinds ==
    { [security_type |-> "Secured", coupon_rate |-> 11, year |-> 2027, credit_rating |-> "AA+"],
      [security_type |-> "Unsecured", coupon_rate |-> 10, year |-> 2026, credit_rating |-> "AA"],
      [security_type |-> "Secured", coupon_rate |-> 10, year |-> 0, credit_rating |-> "AAA"],
      [security_type |-> "Unsecured", coupon_rate |-> 11, year |-> 2027, credit_rating |-> "AA-"],
      [security_type |-> "Secured", coupon_rate |-> 12, year |-> 2028, credit_rating |-> "AA"],
      [security_type |-> "Secured", coupon_rate |-> 11, year |-> 2026, credit_rating |-> "AAA"] }

KindRow(i, k) ==
    BondRow(RowIsin(i), << "Ugro", "Capital" >>, k.coupon_rate, DateText(k.year),
            k.credit_rating, "Active", k.security_type)

\* The stores of at most MaxRows rows, each of any kind.
SmallStores ==
    UNION { { [i \in 1..n |-> KindRow(i, kinds[i])] : kinds \in [1..n -> RowKinds] } :
            n \in 0..MaxRows }

\* The queries of the filter rule: "find bonds" and any of the four criteria.
FilterQueries ==
    { << "find", "bonds" >> \o s \o c \o m \o r :
        s \in { << >>, << "secured" >> },
        c \in { << >>, << "coupon", "above", "10%" >> },
        m \in { << >>, << "maturity", "after", "2026" >> },
        r \in { << >>, << "rated", "AA+" >>, << "rated", "AA" >>, << "rated", "AAA" >>,
                << "rated", "AA-" >>, << "rated", "aa" >> } }

\* A store of n rows that the list queries select, but for the k-th (k = 0: none).
ListedBond(i) == BondRow(RowIsin(i), << "Ugro", "Capital" >>, 11, DateText(2026), "AA",
                         "Active", "Secured")
OtherBond(i) == BondRow(RowIsin(i), << "Tata", "Power" >>, 10, DateText(2025), "A",
                        "Matured", "Unsecured")
ListStore(n, k) == [i \in 1..n |-> IF i = k THEN OtherBond(i) ELSE ListedBond(i)]

ListedOffer(i) == FinderRow(<< "Ugro", "Capital" >>, "AA", i, 20, 3, TRUE, FALSE)
OtherOffer(i) == FinderRow(<< "Tata", "Power" >>, "A", i, 8, 5, FALSE, TRUE)
FinderListStore(n, k) == [i \in 1..n |-> IF i = k THEN OtherOffer(i) ELSE ListedOffer(i)]

ListQueries ==
    { << "find", "bonds" >>, << "find", "secured", "bonds" >>, << "maturity", "2026" >>,
      << "bonds", "more", "than", "8" >>, << "rated", "as", "AA" >>,
      << "bonds", "by", "ugro" >> }

\* The queries of the maturity-year rule.
YearQueries == { << "maturity", "2026" >>, << "maturing", "in", "2025" >> }

InitFilter ==
    /\ \/ /\ bonds_db \in SmallStores
          /\ finder_db = SampleFinder
          /\ pending \in { << q >> : q \in FilterQueries \cup YearQueries }
       \/ \E n \in 0..MaxListRows : \E k \in 0..n :
             /\ bonds_db = ListStore(n, k)
             /\ finder_db = FinderListStore(n, k)
             /\ pending \in { << q >> : q \in ListQueries }
    /\ company_db = SampleCompanies
    /\ specialized_agents = << >>
    /\ InitCalls

NextFilter == DirectoryProcessQuery \/ FinderProcessQuery

SpecFilter == InitFilter /\ [][NextFilter]_vars

----------------------------------------------------------------------------
(* The session scenario: the agents, built over the sample stores, answer  *)
(* up to MaxCalls queries one after the other.                             *)

SessionQueries ==
    { << "isin", "INE1" >>, << "isin", "ine1" >>, << "bonds", "by", "ugro" >>,
      << "find", "bonds" >>, << "maturity", "2026" >>, << "maturing", "in", "2025" >>,
      << "bonds", "more", "than", "8" >>, << "alpha" >>, << "hello" >> }

InitSession ==
    /\ bonds_db = SampleBonds
    /\ finder_db = SampleFinder
    /\ company_db = SampleCompanies
    /\ specialized_agents = << >>
    /\ pending \in UNION { [1..n -> SessionQueries] : n \in 1..MaxCalls }
    /\ InitCalls

NextSession == DirectoryProcessQuery \/ FinderProcessQuery \/ ScreenerProcessQuery

SpecSession == InitSession /\ [][NextSession]_vars

----------------------------------------------------------------------------
(* Properties of the cascades (specification SpecCascade).                 *)

AgentNames == { "bond_directory", "bond_finder", "bond_screener" }

\* The rules of an agent whose trigger expression matches the query; the
\* screener's seventh rule has no expression.
DirMatching(q) == { i \in DirectoryRules : DirTrigger(i, q) }
FinMatching(q) == { i \in FinderRules : FinTrigger(i, q) }
ScrMatching(q) == { i \in 1..6 : ScrTrigger(i, q) }
Matching(agent, q) ==
    CASE agent = "bond_directory" -> DirMatching(q)
      [] agent = "bond_finder" -> FinMatching(q)
      [] OTHER -> ScrMatching(q)

\* The rules of the screener whose whole condition holds: the expression
\* matches and the company name (for the comparison, two names) was found.
ScrAnswering(q, db) == { i \in ScreenerRules : ScrTrigger(i, q) /\ ScrExtracted(i, q, db) }

FirstOf(S) == IF S = { } THEN 0 ELSE MinOf(S)
RulesUpTo(m) == [i \in 1..m |-> i]

IsGeneralHelp(r) == "response_type" \in DOMAIN r /\ r.response_type = "general_help"

\* C1 as stated: in each of the three agents the first rule whose trigger
\* expression matches the query is the rule that answers, and no rule after
\* it is evaluated.
C1_FirstTriggerWins ==
    called \in AgentNames =>
        LET m == FirstOf(Matching(called, query))
        IN  m # 0 => fired = m /\ evaluated = RulesUpTo(m)

\* C1, amended: in the directory and the finder the first rule whose trigger
\* expression matches the query answers and no later rule is evaluated; in
\* the screener the rule that answers is the first whose expression matches
\* and whose company name was found (two names for the comparison), the
\* rules before it having been evaluated and passed over, none after it.
C1_FirstAnsweringRuleWins ==
    /\ called \in { "bond_directory", "bond_finder" } =>
          LET m == FirstOf(Matching(called, query))
          IN  m # 0 => fired = m /\ evaluated = RulesUpTo(m)
    /\ called = "bond_screener" =>
          LET m == FirstOf(ScrAnswering(query, company_db))
          IN  m # 0 => /\ fired = m
                       /\ evaluated = RulesUpTo(m)
                       /\ handler = ScrHandlerName(m)

\* A screener call in which the summary expression matched, no company name
\* was found, and the comparison rule answered.
C1_Witness ==
    /\ called = "bond_screener"
    /\ ScrTrigger(1, query)
    /\ fired = 3
    /\ evaluated = << 1, 2, 3 >>

\* C2 as stated: in each agent the Result is the general help exactly when
\* no trigger expression of the agent matches the query, and the general
\* help has no data.
C2_HelpIffNoTrigger ==
    called \in AgentNames =>
        /\ (Matching(called, query) = { }) <=> IsGeneralHelp(result)
        /\ IsGeneralHelp(result) => "data" \notin DOMAIN result

\* C2, amended: in the directory and the finder the Result is the general
\* help exactly when no trigger expression matches the query; in the
\* screener it is the general help exactly when no rule answers, that is
\* when no rule has both its expression matched and its company name found
\* (the last rule asks for the name only).  The general help is the fixed
\* Result of the agent, without data.
C2_HelpIffNoRuleAnswers ==
    /\ called \in { "bond_directory", "bond_finder" } =>
          ((Matching(called, query) = { }) <=> IsGeneralHelp(result))
    /\ called = "bond_screener" =>
          ((ScrAnswering(query, company_db) = { }) <=> IsGeneralHelp(result))
    /\ IsGeneralHelp(result) =>
          /\ "data" \notin DOMAIN result
          /\ result = CASE called = "bond_directory" -> DirGeneralHelp
                        [] called = "bond_finder" -> FinGeneralHelp
                        [] OTHER -> ScrGeneralHelp

\* A screener call that returned the general help although one of its
\* trigger expressions matched the query.
C2_Witness ==
    /\ called = "bond_screener"
    /\ ScrMatching(query) # { }
    /\ result = ScrGeneralHelp

----------------------------------------------------------------------------
(* Properties of the orchestrator (specification SpecRouter).              *)

Registered(a) == InSeq(a, specialized_agents)
IsEnvelope(r) == DOMAIN r = { "agent_type", "response", "query", "confidence" }
Raised(r) == "exception" \in DOMAIN r

\* C3: for every query and every non-empty dict of registered agents,
\* determine_agent returns without raising the key of a registered agent,
\* and process_query dispatches without a KeyError.
C3_RoutingTotal ==
    called = "orchestrator" =>
        LET routed == DetermineAgent(query, specialized_agents)
        IN  /\ ~Raised(routed)
            /\ Registered(routed.agent_type)
            /\ ~(Raised(result) /\ result.exception = "KeyError")

\* The registered agents with the highest score, the score of an agent being
\* the number of matches of all its patterns.
TopScore == MaxOf({ PatternScore(specialized_agents[i], query) : i \in DOMAIN specialized_agents })
FirstTopAgent ==
    specialized_agents[MinOf({ i \in DOMAIN specialized_agents :
                                  PatternScore(specialized_agents[i], query) = TopScore })]

\* C4: when a registered agent has a score above zero, determine_agent
\* returns the registered agent with the highest score, the first in the
\* order of registration among those that share it.
C4_HighestScoreFirstRegistered ==
    called = "orchestrator" /\ TopScore > 0 =>
        DetermineAgent(query, specialized_agents) = [agent_type |-> FirstTopAgent]

\* No pattern of any agent type matches the query: every score is zero.
AllScoresZero == \A k \in DOMAIN AgentTypes : PatternScore(AgentTypes[k], query) = 0

ChosenCounts == PatternCounts(result.agent_type, query)
ChosenN == Len(ChosenCounts)
ChosenM == Cardinality({ k \in 1..ChosenN : ChosenCounts[k] > 0 })

\* C6: the confidence of an envelope is 0.5 when no pattern of the chosen
\* agent matches the query, and otherwise min(0.5 + (m / n) * 0.5, 1.0),
\* that is min((n + m) / 2n, 1), with n the number of patterns of the chosen
\* agent and m the number of them that match at least once, however many
\* times each matches; it lies between 0.5 and 1.
C6_ConfidenceFormula ==
    called = "orchestrator" /\ IsEnvelope(result) =>
        /\ ChosenM = 0 => QEq(result.confidence, Half)
        /\ ChosenM > 0 =>
              QEq(result.confidence, QMin(<< ChosenN + ChosenM, 2 * ChosenN >>, One))
        /\ QLeq(Half, result.confidence)
        /\ QLeq(result.confidence, One)

\* An envelope whose agent has a pattern that matches the query twice and
\* another that does not match it.
C6_Witness ==
    /\ called = "orchestrator"
    /\ IsEnvelope(result)
    /\ \E k \in 1..ChosenN : ChosenCounts[k] >= 2
    /\ \E k \in 1..ChosenN : ChosenCounts[k] = 0
    /\ QEq(result.confidence, << ChosenN + ChosenM, 2 * ChosenN >>)

\* C7: process_query returns an envelope that holds the Result of the
\* selected agent for the query, the key of the agent that was invoked, the
\* query and the confidence computed for that agent; one agent is invoked.
C7_EnvelopeOfOneAgent ==
    [][called' = "orchestrator" =>
          /\ IsEnvelope(result')
          /\ Len(invoked') = 1
          /\ result'.agent_type = invoked'[1]
          /\ result'.response =
                AgentProcessQuery(invoked'[1], query', bonds_db, finder_db, company_db).result
          /\ result'.query = query'
          /\ QEq(result'.confidence, CalculateConfidence(query', invoked'[1]))]_vars

----------------------------------------------------------------------------
(* Properties of the list handlers (specification SpecFilter).             *)

\* The criteria a filter query states.
SecuredStated(q) == At(q, { "secured" }) # { }
CouponStated(q) == CouponAt(q) # { }
MaturityStated(q) == MaturityAfterAt(q) # { }
RatingStated(q) == RatedAt(q) # { }
NoCriterion(q) ==
    ~SecuredStated(q) /\ ~CouponStated(q) /\ ~MaturityStated(q) /\ ~RatingStated(q)

\* A row satisfies every criterion the query states.
Satisfies(q, r) ==
    /\ SecuredStated(q) => r.security_type = "Secured"
    /\ CouponStated(q) => r.coupon_rate > NumberOf(q[MaxOf(CouponAt(q)) + 1])
    /\ MaturityStated(q) =>
          /\ r.redemption_date.year # 0
          /\ r.redemption_date.year > YearOf(q[MaxOf(MaturityAfterAt(q)) + 1])
    /\ RatingStated(q) => ContainsLiteral(RatedGroup(q), r.credit_rating)

\* The rows a Result returns: those of its data, none when it has no data.
ResultRows(r) == IF "data" \in DOMAIN r THEN r.data ELSE << >>

\* A row of the directory store whatever the type of its date column.
RowKey(r) == [r EXCEPT !.redemption_date = @.year]
RowKeys(rows) == [i \in 1..Len(rows) |-> RowKey(rows[i])]

\* rows are rows of the store, in the order of the store (whose rows differ).
InStoreOrder(rows, store) ==
    /\ \A i \in 1..Len(rows) : \E k \in 1..Len(store) : store[k] = rows[i]
    /\ \A i, j \in 1..Len(rows) :
          i < j => (CHOOSE k \in 1..Len(store) : store[k] = rows[i])
                      < (CHOOSE k \in 1..Len(store) : store[k] = rows[j])

\* C8: the directory filter returns exactly the rows of the store that
\* satisfy every criterion the query states (Secured, coupon above the rate,
\* redemption year after the year, rating containing the stated rating).
C8_FilterReturnsSatisfyingRows ==
    called = "bond_directory" /\ handler = "_filter_bonds" =>
        RowKeys(ResultRows(result))
            = RowKeys(SelectSeq(bonds_db, LAMBDA r : Satisfies(query, r)))

\* C9: a filter query that states no criterion returns the whole store, each
\* row once and in the order of the store (no row when the store has none);
\* and every list handler returns rows of its store in the order of the store.
C9_NoCriterionReturnsStore ==
    /\ called = "bond_directory" /\ handler = "_filter_bonds" /\ NoCriterion(query) =>
          ResultRows(result) = bonds_db
    /\ called = "bond_directory"
         /\ handler \in { "_filter_bonds", "_get_bonds_by_maturity_year" } =>
          InStoreOrder(RowKeys(ResultRows(result)), RowKeys(bonds_db))
    /\ called = "bond_finder"
         /\ handler \in { "_get_bonds_by_yield", "_get_bonds_by_rating" } =>
          InStoreOrder(ResultRows(result), finder_db)

\* A filter query without criterion answered on a store of several rows.
C9_Witness ==
    /\ called = "bond_directory"
    /\ handler = "_filter_bonds"
    /\ NoCriterion(query)
    /\ Len(bonds_db) >= 2
    /\ bonds_db[1].security_type # bonds_db[2].security_type
    /\ result.data = bonds_db

\* The message shows the first c of the n rows and, past c, the notice of n - c.
ShowsCapped(shown, more, n, c) ==
    /\ Len(shown) = Min(n, c)
    /\ n <= c => more = << >>
    /\ n > c => more = << n - c >>

\* C10: a list of n >= 1 rows is shown whole and without notice when n is at
\* most the cap, and as its first rows up to the cap with the notice of the
\* n - cap rows left out when n is above it; the cap is 5 for the filtered
\* preview of the directory and 10 for the maturity-year list and the yield
\* and rating lists of the finder.
C10_DisplayCaps ==
    LET n == Len(ResultRows(result))
        m == result.message
    IN  /\ called = "bond_directory" /\ handler = "_filter_bonds" /\ n >= 1 =>
              /\ ShowsCapped(m.rows, m.more, n, 5)
              /\ m.rows = SubSeq(result.data, 1, Min(n, 5))
        /\ called = "bond_directory" /\ handler = "_get_bonds_by_maturity_year" /\ n >= 1 =>
              /\ ShowsCapped(m.rows, m.more, n, 10)
              /\ m.rows = SubSeq(result.data, 1, Min(n, 10))
        /\ called = "bond_finder"
             /\ handler \in { "_get_bonds_by_yield", "_get_bonds_by_rating" } /\ n >= 1 =>
              /\ ShowsCapped(m.rows, m.more, n, 10)
              /\ m.rows = FinTable(SubSeq(result.data, 1, Min(n, 10)), finder_db)

\* A finder list of one row more than its cap.
C10_Witness ==
    /\ called = "bond_finder"
    /\ handler = "_get_bonds_by_yield"
    /\ Len(ResultRows(result)) = 11
    /\ Len(result.message.rows) = 10
    /\ result.message.more = << 1 >>

----------------------------------------------------------------------------
(* Properties of the list Results (specification SpecFilter).              *)

ListTags ==
    { "filtered_bonds", "yield_based_search", "rating_based_search", "maturity_bonds",
      "issuer_issuances" }

\* rows are the selected rows, whatever the type of their date column.
HoldsEvery(rows, selected) == RowKeys(rows) = RowKeys(selected)

\* The rows of the store that satisfy the query are all among rows.
HoldsEverySatisfying(rows, q, store) ==
    \A k \in 1..Len(store) :
        Satisfies(q, store[k]) =>
            \E i \in 1..Len(rows) : RowKey(rows[i]) = RowKey(store[k])

\* C11: the 'data' of a successful list Result (filtered_bonds,
\* yield_based_search, rating_based_search, maturity_bonds, issuer_issuances)
\* holds every row of the store that matches, however many the message
\* shows, and a 'count', where the Result has one, is the length of 'data'.
C11_DataHoldsEveryMatch ==
    LET t == result.response_type
    IN  /\ t \in ListTags /\ "count" \in DOMAIN result => result.count = Len(result.data)
        /\ called = "bond_directory" /\ t = "filtered_bonds" =>
              /\ HoldsEverySatisfying(result.data, query, bonds_db)
              /\ "count" \in DOMAIN result
              /\ result.message.count = Len(result.data)
        /\ called = "bond_directory" /\ t = "maturity_bonds" =>
              /\ HoldsEvery(result.data,
                            SelectSeq(bonds_db, LAMBDA r : r.redemption_date.year = result.year))
              /\ "count" \in DOMAIN result
        /\ called = "bond_directory" /\ t = "issuer_issuances" =>
              /\ result.data
                   = SelectSeq(bonds_db,
                               LAMBDA r : ContainsNoCase(result.issuer, r.issuer_name))
              /\ result.message.total_bonds = Len(result.data)
        /\ called = "bond_finder" /\ t = "yield_based_search" =>
              result.data = SelectSeq(finder_db, LAMBDA r : r.yield_max > result.min_yield)
        /\ called = "bond_finder" /\ t = "rating_based_search" =>
              result.data
                = SelectSeq(finder_db, LAMBDA r : ContainsLiteral(result.rating, r.rating))

\* A filtered list of more rows than its preview shows, all of them in 'data'.
C11_Witness ==
    /\ called = "bond_directory"
    /\ result.response_type = "filtered_bonds"
    /\ result.count = 11
    /\ Len(result.data) = 11
    /\ Len(result.message.rows) = 5

\* The threshold a yield query and a coupon criterion state.
YieldStated(q) == NumberOf(q[MaxOf(FinYieldAt(q)) + 2])
CouponRateStated(q) == NumberOf(q[MaxOf(CouponAt(q)) + 1])

\* C12: a threshold is an exclusive lower bound.  The yield search of the
\* finder returns exactly the rows whose yield_max is above the threshold,
\* and 'no_results' when there is none; the coupon criterion of the directory
\* filter keeps only rows whose coupon_rate is above the rate, exactly those
\* when it is the only criterion, and the Result is 'no_results' when no row
\* is above it.  A row at the threshold is never returned.
C12_ThresholdsExclusive ==
    /\ called = "bond_finder" /\ handler = "_get_bonds_by_yield" =>
          LET t == YieldStated(query)
              above == SelectSeq(finder_db, LAMBDA r : r.yield_max > t)
          IN  /\ ResultRows(result) = above
              /\ (above = << >>) <=> (result.response_type = "no_results")
              /\ above # << >> => result.response_type = "yield_based_search"
    /\ called = "bond_directory" /\ handler = "_filter_bonds" /\ CouponStated(query) =>
          LET t == CouponRateStated(query)
              rows == ResultRows(result)
              above == SelectSeq(bonds_db, LAMBDA r : r.coupon_rate > t)
          IN  /\ \A i \in 1..Len(rows) : rows[i].coupon_rate > t
              /\ above = << >> => result.response_type = "no_results"
              /\ ~SecuredStated(query) /\ ~MaturityStated(query) /\ ~RatingStated(query) =>
                    /\ rows = above
                    /\ (above = << >>) <=> (result.response_type = "no_results")

\* A yield search on a store with a row at the threshold, which is left out.
C12_Witness ==
    /\ called = "bond_finder"
    /\ handler = "_get_bonds_by_yield"
    /\ \E k \in 1..Len(finder_db) : finder_db[k].yield_max = YieldStated(query)
    /\ result.response_type = "yield_based_search"
    /\ Len(result.data) = Len(finder_db) - 1

----------------------------------------------------------------------------
(* Properties of a session of calls (specification SpecSession).           *)

\* C13: the stores are read-only after construction: after any sequence of
\* process_query calls every column of every row has the value and the
\* representation it was loaded with.
C13_StoresReadOnly ==
    /\ bonds_db = SampleBonds
    /\ finder_db = SampleFinder
    /\ company_db = SampleCompanies

\* C14: the Result of process_query for a query does not depend on the calls
\* made before it on the same agent: it is the Result the agent gives for
\* that query right after construction (so a query asked twice gets the same
\* Result twice).
C14_ResultIndependentOfHistory ==
    /\ called = "bond_directory" => result = DirProcessQuery(query, SampleBonds).result
    /\ called = "bond_finder" => result = FinProcessQuery(query, SampleFinder).result
    /\ called = "bond_screener" => result = ScrProcessQuery(query, SampleCompanies).result

----------------------------------------------------------------------------
(* Properties of the Results (specification SpecCascade).                  *)

\* The tags of the response envelope.
ResponseTypes ==
    { "isin_details", "issuer_issuances", "filtered_bonds", "no_results", "error",
      "general_help", "platform_availability", "yield_based_search",
      "best_yield_comparison", "rating_based_search", "company_summary",
      "company_metric", "compare_metrics", "pros_cons", "lenders_list", "recent_news",
      "cash_flow_schedule", "maturity_bonds" }

\* The call of process_query has returned a Result.
Returned == called # "none" /\ ~Raised(result)

\* C15 as stated: every Result carries a response_type of the fixed set, and
\* no handler emits another tag.
C15_TagInFixedSet ==
    Returned => "response_type" \in DOMAIN result /\ result.response_type \in ResponseTypes

\* C15: every Result carries a response_type that is a tag of the fixed set
\* or 'general_info', the tag of the general-info handler of the finder; no
\* handler emits another tag.
C15_TagInFixedSetOrGeneralInfo ==
    Returned =>
        /\ "response_type" \in DOMAIN result
        /\ result.response_type \in ResponseTypes \cup { "general_info" }
        /\ result.response_type = "general_info" =>
              called = "bond_finder" /\ handler = "_get_general_info"

\* The finder answers a general inquiry.
C15_Witness ==
    /\ called = "bond_finder"
    /\ handler = "_get_general_info"
    /\ result.response_type = "general_info"
    /\ result.response_type \notin ResponseTypes

\* C16: no query makes process_query of an agent raise: every call returns
\* a Result that carries a response_type.
C16_NeverRaises ==
    called \in AgentNames => ~Raised(result) /\ "response_type" \in DOMAIN result

\* C17: the ISIN lookup compares the requested key with the isin column by
\* equality.  When no row has the key the Result is an 'error' whose message
\* names the key and that has no 'data'; otherwise it is 'isin_details', its
\* 'isin' is the key and its 'data' is a row of the store with that ISIN.
C17_IsinLookupExact ==
    called = "bond_directory" /\ handler = "_get_isin_details" =>
        LET isin == IsinGroup(query)
            found == { k \in 1..Len(bonds_db) : bonds_db[k].isin = isin }
        IN  /\ found = { } =>
                  /\ result.response_type = "error"
                  /\ result.message = [template |-> "error_isin_not_found", isin |-> isin]
                  /\ "data" \notin DOMAIN result
            /\ found # { } =>
                  /\ result.response_type = "isin_details"
                  /\ result.isin = isin
                  /\ \E k \in found : result.data = bonds_db[k]

\* A lookup of an ISIN that no row of a store of several rows has.
C17_Witness ==
    /\ called = "bond_directory"
    /\ handler = "_get_isin_details"
    /\ Len(bonds_db) >= 2
    /\ \A k \in 1..Len(bonds_db) : bonds_db[k].isin # IsinGroup(query)
    /\ result.response_type = "error"
    /\ result.message.isin = "INE9"

\* C18: the ISIN a query asks for is put in upper case before the lookup:
\* an ISIN written in lower or mixed case gets the record that its spelling
\* in upper case gets.
C18_IsinCaseNormalized ==
    called = "bond_directory" /\ handler = "_get_isin_details" =>
        LET key == Upper(IsinGroup(query))
            found == SelectSeq(bonds_db, LAMBDA r : r.isin = key)
        IN  found # << >> =>
                /\ result.response_type = "isin_details"
                /\ result.data = found[1]

\* The issuer an issuances query names.
IssuerStated(q) == LetterRun(q, MaxOf(IssuancesAt(q)) + 1)

\* C19: the issuer-issuances handler selects exactly the rows whose
\* issuer_name contains the issuer of the query, compared without case; its
\* total is the number of rows selected, its active count the number of them
\* whose status is 'Active', its matured count the total less the active
\* count, and the Result is an 'error' when no row is selected.
C19_IssuerIssuances ==
    called = "bond_directory" /\ handler = "_get_issuer_issuances" =>
        LET issuer == IssuerStated(query)
            selected == { k \in 1..Len(bonds_db) :
                            IsInfix(FoldAll(issuer), FoldAll(bonds_db[k].issuer_name)) }
            active == { k \in selected : bonds_db[k].status = "Active" }
            m == result.message
        IN  /\ selected = { } =>
                  /\ result.response_type = "error"
                  /\ m = [template |-> "error_issuer_not_found", issuer |-> issuer]
            /\ selected # { } =>
                  /\ result.response_type = "issuer_issuances"
                  /\ result.data = SelectSeq(bonds_db,
                                             LAMBDA r : \E k \in selected : bonds_db[k] = r)
                  /\ m.total_bonds = Cardinality(selected)
                  /\ m.active_bonds = Cardinality(active)
                  /\ m.matured_bonds = Cardinality(selected \ active)
                  /\ m.matured_bonds = m.total_bonds - m.active_bonds

\* An issuer written in lower case that has an active and a matured bond.
C19_Witness ==
    /\ called = "bond_directory"
    /\ handler = "_get_issuer_issuances"
    /\ IssuerStated(query) = << "ugro" >>
    /\ result.response_type = "issuer_issuances"
    /\ Len(result.data) = 2
    /\ Len(bonds_db) = 3
    /\ result.message.active_bonds = 1
    /\ result.message.matured_bonds = 1

\* The store has a row with the ISIN the query asks for.
IsinInStore(q, db) == \E k \in 1..Len(db) : db[k].isin = IsinGroup(q)

\* C20: the directory agent answers the example queries of its help text
\* with the handlers they advertise: an ISIN alone with the ISIN lookup,
\* issuances by an issuer with the issuer search, a search with the filter,
\* a maturity year with the maturity-year list, and a query that asks for
\* the schedule of an ISIN with the cash-flow rule, whose Result is
\* 'cash_flow_schedule' when the ISIN is in the store.
C20_HelpExamplesAnswered ==
    called = "bond_directory" =>
        /\ query = << "isin", "INE1" >> => handler = "_get_isin_details"
        /\ query = << "bonds", "by", "ugro" >> => handler = "_get_issuer_issuances"
        /\ query = << "find", "bonds" >> => handler = "_filter_bonds"
        /\ query = << "maturing", "in", "2025" >> => handler = "_get_bonds_by_maturity_year"
        /\ ThenIsin(query, { "schedule" }) =>
              /\ fired = 5
              /\ handler = "_get_cash_flow_schedule"
              /\ IsinInStore(query, bonds_db) => result.response_type = "cash_flow_schedule"

----------------------------------------------------------------------------
(* Properties of the year predicates (specification SpecFilter).           *)

\* The redemption date of a row parses, and its year.
Parses(r) == r.redemption_date.year # 0
YearAfterStated(q) == YearOf(q[MaxOf(MaturityAfterAt(q)) + 1])
YearStated(q) == YearOf(q[MinOf(At(q, HasYear))])

\* C21: in the year predicates a row whose redemption_date does not parse is
\* left out of the result and raises no error, and a row whose date parses
\* is kept exactly when its year satisfies the comparison: above the year
\* for the 'maturity after' criterion of the filter, equal to the year for
\* the maturity-year lookup.
C21_UnparsableDatesExcluded ==
    LET rows == ResultRows(result)
    IN  /\ called = "bond_directory" /\ handler = "_filter_bonds" /\ MaturityStated(query) =>
              /\ ~Raised(result)
              /\ result.response_type \in { "filtered_bonds", "no_results" }
              /\ \A i \in 1..Len(rows) :
                    Parses(rows[i]) /\ rows[i].redemption_date.year > YearAfterStated(query)
              /\ ~SecuredStated(query) /\ ~CouponStated(query) /\ ~RatingStated(query) =>
                    RowKeys(rows)
                      = RowKeys(SelectSeq(bonds_db,
                                          LAMBDA r : Parses(r) /\ r.redemption_date.year
                                                                    > YearAfterStated(query)))
        /\ called = "bond_directory" /\ handler = "_get_bonds_by_maturity_year" =>
              /\ ~Raised(result)
              /\ result.response_type \in { "maturity_bonds", "no_results" }
              /\ RowKeys(rows)
                   = RowKeys(SelectSeq(bonds_db,
                                       LAMBDA r : Parses(r) /\ r.redemption_date.year
                                                                 = YearStated(query)))

\* A maturity-year lookup on a store with a date that does not parse and a
\* date of the year asked for.
C21_Witness ==
    /\ called = "bond_directory"
    /\ handler = "_get_bonds_by_maturity_year"
    /\ Len(bonds_db) = 2
    /\ ~Parses(bonds_db[1])
    /\ result.response_type = "maturity_bonds"
    /\ Len(result.data) = 1

----------------------------------------------------------------------------
(* Properties of the company extraction (specification SpecCascade).       *)

\* The handlers of the screener that are given one company name.
CompanyHandlers ==
    { "_get_company_summary", "_get_company_metric", "_get_pros_cons", "_get_lenders",
      "_get_recent_news" }

\* The text occurs in a company name of the store, compared without case.
Validated(text, db) == \E i \in 1..Len(db) : IsInfix(FoldAll(text), FoldAll(db[i]))

\* The patterns of _extract_company_name whose candidate is validated.
ValidPatterns(q, db) ==
    { p \in 1..3 : CompanyCandidate(p, q) # << >> /\ Validated(CompanyCandidate(p, q)[1], db) }

\* C22: the company-name extraction tries its patterns in order and returns
\* the candidate of the first pattern whose candidate occurs, compared
\* without case, in a company_name of the store; when no pattern has such a
\* candidate it returns None, and then no handler that takes a company
\* (summary, metric, pros and cons, lenders, news) is called for the query.
C22_CompanyExtraction ==
    called = "bond_screener" =>
        LET company_name == ScrExtractCompanyName(query, company_db)
            valid == ValidPatterns(query, company_db)
        IN  /\ valid # { } => company_name = CompanyCandidate(MinOf(valid), query)[1]
            /\ valid = { } => company_name = << >> /\ handler \notin CompanyHandlers
            /\ company_name # << >> => Validated(company_name, company_db)
            /\ handler \in CompanyHandlers => company_name # << >>

\* A query that names a company the store does not have and asks for its
\* lenders: the pattern has a candidate, none is returned, no handler called.
C22_Witness ==
    /\ called = "bond_screener"
    /\ CompanyCandidate(2, query) = << << "gamma" >> >>
    /\ ScrTrigger(5, query)
    /\ ScrExtractCompanyName(query, company_db) = << >>
    /\ handler = "none"
    /\ result.response_type = "general_help"

----------------------------------------------------------------------------
(* Properties of the platform availability (specification SpecCascade).    *)

\* The rows of the finder store whose issuer contains the text, without case.
MatchedOffers(issuer, db) ==
    { k \in 1..Len(db) : IsInfix(FoldAll(issuer), FoldAll(db[k].issuer)) }

\* The platforms on which a row of rows is available.
PlatformsOf(rows, db) ==
    { p \in { "SMEST", "FixedIncome" } :
        \E k \in rows : IF p = "SMEST" THEN db[k].available_on_smest
                        ELSE db[k].available_on_fixedincome }

\* C23: when the issuer of a platform-availability query occurs, compared
\* without case, in the issuer of at least one row, the platforms reported
\* are exactly those on which one of the matched rows is available, and the
\* yield range runs from the least yield_min to the greatest yield_max of
\* the same rows.
C23_PlatformsOfMatchedRows ==
    called = "bond_finder" /\ handler = "_get_platform_availability" =>
        LET issuer == LetterRun(query, MaxOf(FinPlatformAt(query)) + 1)
            matched == MatchedOffers(issuer, finder_db)
            reported == result.data.platforms
        IN  matched # { } =>
                /\ result.response_type = "platform_availability"
                /\ { reported[i] : i \in 1..Len(reported) } = PlatformsOf(matched, finder_db)
                /\ result.data.yield_range
                     = << MinOf({ finder_db[k].yield_min : k \in matched }),
                          MaxOf({ finder_db[k].yield_max : k \in matched }) >>

----------------------------------------------------------------------------
(* Properties of the confidence (specification SpecRouter).                *)

\* C24: the confidence of an envelope is 0.5 exactly when the fallback route
\* was taken, every agent type scoring zero.  When an agent is chosen for a
\* score above zero at least one of its patterns matches in the boolean
\* re-check, so the confidence is above 0.5 and at most 1.0; it is 1.0
\* exactly when every pattern of the chosen agent matches.
C24_ConfidenceHalfIffFallback ==
    called = "orchestrator" /\ IsEnvelope(result) =>
        /\ QEq(result.confidence, Half) <=> AllScoresZero
        /\ ~AllScoresZero =>
              /\ PatternScore(result.agent_type, query) > 0
              /\ ChosenM >= 1
              /\ ~QLeq(result.confidence, Half)
              /\ QLeq(result.confidence, One)
        /\ QEq(result.confidence, One) <=> (ChosenM = ChosenN)

\* An envelope of an agent every pattern of which matches the query.
C24_Witness ==
    /\ called = "orchestrator"
    /\ IsEnvelope(result)
    /\ ~AllScoresZero
    /\ ChosenM = ChosenN
    /\ QEq(result.confidence, One)

=============================================================================
